---- MODULE Spec2Model ----
(***************************************************************************)
(* Workflow execution engine of bazzounquester: WorkflowExecutor::execute  *)
(* drives a RequestChain step by step against a ScriptContext, with the    *)
(* variable substitutor, the script hooks, the HTTP client and the         *)
(* response validator it calls.                                            *)
(*                                                                         *)
(* Text that the program scans (templates, variable values, bodies, JSON   *)
(* paths) is a sequence of one-character strings, so that the scanning can *)
(* be modelled as the code does it.  Error messages, which are only built  *)
(* and never scanned, are TLA+ strings.  Option<T> is a sequence of length *)
(* 0 (None) or 1 (Some).                                                   *)
(***************************************************************************)
EXTENDS Integers, Sequences, FiniteSets, TLC

VARIABLES chain, pc, iteration, stepIdx, result, context, request, response,
          sent, recorded, slept, call

vars == <<chain, pc, iteration, stepIdx, result, context, request, response,
          sent, recorded, slept, call>>

\* The state of a chain execution.
executor == <<chain, pc, iteration, stepIdx, result, context, request, response,
              sent, recorded, slept>>

(***************************************************************************)
(* Bounds of the model.                                                    *)
(***************************************************************************)
MaxSteps == 2
MaxIterations == 2
MaxStepDuration == 1
MaxDurationLimit == 1
MaxResults == 3
MaxAssertions == 2
MaxPieces == 3

None == <<>>
Some(x) == <<x>>
IsSome(o) == Len(o) = 1
Unwrap(o) == o[1]

(***************************************************************************)
(* Characters.                                                             *)
(***************************************************************************)
Lower == {"a","b","c","d","e","f","g","h","i","j","k","l","m",
          "n","o","p","q","r","s","t","u","v","w","x","y","z"}
Upper == {"A","B","C","D","E","F","G","H","I","J","K","L","M",
          "N","O","P","Q","R","S","T","U","V","W","X","Y","Z"}
Digits == {"0","1","2","3","4","5","6","7","8","9"}
IdentStart == Lower \cup Upper \cup {"_"}
IdentChar == IdentStart \cup Digits

DigitChar == <<"0","1","2","3","4","5","6","7","8","9">>

RECURSIVE NatToText(_)
NatToText(n) ==
    IF n < 10 THEN <<DigitChar[n + 1]>>
    ELSE NatToText(n \div 10) \o <<DigitChar[(n % 10) + 1]>>

\* Display of an integer (u16::to_string, serde_json Number::to_string).
IntToText(n) == IF n < 0 THEN <<"-">> \o NatToText(-n) ELSE NatToText(n)

RECURSIVE NatToString(_)
NatToString(n) ==
    IF n < 10 THEN DigitChar[n + 1]
    ELSE NatToString(n \div 10) \o DigitChar[(n % 10) + 1]

(***************************************************************************)
(* VariableSubstitutor: the pattern of two opening braces, an identifier  *)
(* (a letter or underscore, then letters, digits and underscores) and two  *)
(* closing braces; replace_all runs over its leftmost, non-overlapping     *)
(* matches.                                                                *)
(***************************************************************************)
RECURSIVE IdentEnd(_, _)
\* First index >= i whose character is not an identifier character.
IdentEnd(text, i) ==
    IF i <= Len(text) /\ text[i] \in IdentChar THEN IdentEnd(text, i + 1) ELSE i

\* Index of the last character of the match of the pattern that starts at i,
\* or 0 when the pattern does not match at i.
MatchEnd(text, i) ==
    IF /\ i + 4 <= Len(text)
       /\ text[i] = "{"
       /\ text[i + 1] = "{"
       /\ text[i + 2] \in IdentStart
    THEN LET k == IdentEnd(text, i + 3)
         IN  IF k + 1 <= Len(text) /\ text[k] = "}" /\ text[k + 1] = "}"
             THEN k + 1
             ELSE 0
    ELSE 0

\* Capture group 1 of the match text[i..e].
MatchName(text, i, e) == SubSeq(text, i + 2, e - 2)

RECURSIVE SubstituteFromDropsMissing(_, _, _)
\* replace_all with a closure that puts nothing for a name that is not found.
SubstituteFromDropsMissing(text, i, variables) ==
    IF i > Len(text) THEN <<>>
    ELSE LET e == MatchEnd(text, i)
         IN  IF e = 0
             THEN <<text[i]>> \o SubstituteFromDropsMissing(text, i + 1, variables)
             ELSE LET var_name == MatchName(text, i, e)
                  IN  (IF var_name \in DOMAIN variables
                       THEN variables[var_name]
                       ELSE <<>>)
                      \o SubstituteFromDropsMissing(text, e + 1, variables)

RECURSIVE SubstituteFromRescans(_, _, _)
\* The substitution going on over the value it has just put in, so that a
\* token in a value is replaced as well.
SubstituteFromRescans(text, i, variables) ==
    IF i > Len(text) THEN <<>>
    ELSE LET e == MatchEnd(text, i)
         IN  IF e = 0
             THEN <<text[i]>> \o SubstituteFromRescans(text, i + 1, variables)
             ELSE LET var_name == MatchName(text, i, e)
                  IN  IF var_name \in DOMAIN variables /\ variables[var_name] # SubSeq(text, i, e)
                      THEN SubstituteFromRescans(
                               variables[var_name] \o SubSeq(text, e + 1, Len(text)),
                               1, variables)
                      ELSE SubSeq(text, i, e)
                           \o SubstituteFromRescans(text, e + 1, variables)

RECURSIVE SubstituteFrom(_, _, _)
\* replace_all from index i on: the closure of substitute on every match.
SubstituteFrom(text, i, variables) ==
    IF i > Len(text) THEN <<>>
    ELSE LET e == MatchEnd(text, i)
         IN  IF e = 0
             THEN <<text[i]>> \o SubstituteFrom(text, i + 1, variables)
             ELSE LET var_name == MatchName(text, i, e)
                  IN  (IF var_name \in DOMAIN variables
                       THEN variables[var_name]
                       ELSE SubSeq(text, i, e))
                      \o SubstituteFrom(text, e + 1, variables)

\* VariableSubstitutor::substitute
Substitute(text, variables) == SubstituteFrom(text, 1, variables)

RECURSIVE FindVariablesFrom(_, _)
FindVariablesFrom(text, i) ==
    IF i > Len(text) THEN <<>>
    ELSE LET e == MatchEnd(text, i)
         IN  IF e = 0 THEN FindVariablesFrom(text, i + 1)
             ELSE <<MatchName(text, i, e)>> \o FindVariablesFrom(text, e + 1)

\* VariableSubstitutor::find_variables
FindVariables(text) == FindVariablesFrom(text, 1)

RECURSIVE MissingFromStopsAtFirst(_, _, _)
\* The loop of validate left at the first name that is not found.
MissingFromStopsAtFirst(text, i, variables) ==
    IF i > Len(text) THEN <<>>
    ELSE LET e == MatchEnd(text, i)
         IN  IF e = 0 THEN MissingFromStopsAtFirst(text, i + 1, variables)
             ELSE IF MatchName(text, i, e) \in DOMAIN variables
                  THEN MissingFromStopsAtFirst(text, e + 1, variables)
                  ELSE <<MatchName(text, i, e)>>

RECURSIVE MissingFrom(_, _, _)
\* The loop of validate over the matches from index i on: the names pushed
\* to missing.
MissingFrom(text, i, variables) ==
    IF i > Len(text) THEN <<>>
    ELSE LET e == MatchEnd(text, i)
         IN  IF e = 0 THEN MissingFrom(text, i + 1, variables)
             ELSE (IF MatchName(text, i, e) \in DOMAIN variables
                   THEN <<>>
                   ELSE <<MatchName(text, i, e)>>)
                  \o MissingFrom(text, e + 1, variables)

\* VariableSubstitutor::validate: Ok(()) or Err(missing)
SubstitutorValidate(text, variables) ==
    LET missing == MissingFrom(text, 1, variables)
    IN  IF missing = <<>> THEN [ok |-> TRUE, missing |-> <<>>]
        ELSE [ok |-> FALSE, missing |-> missing]

(***************************************************************************)
(* JSON values (serde_json::Value): [t |-> kind, v |-> payload] with kind  *)
(* "null", "bool", "num", "str", "arr" (payload a sequence of values) or   *)
(* "obj" (payload a function from keys to values).                         *)
(***************************************************************************)
JNull == [t |-> "null", v |-> 0]
JBool(b) == [t |-> "bool", v |-> b]
JNum(n) == [t |-> "num", v |-> n]
JStr(s) == [t |-> "str", v |-> s]
JArr(a) == [t |-> "arr", v |-> a]
JObj(m) == [t |-> "obj", v |-> m]

\* Response bodies the transport can deliver, as text.
\* {"t":"ab","n":7}
BodyToken ==
    <<"{", "\"", "t", "\"", ":", "\"", "a", "b", "\"", ",",
      "\"", "n", "\"", ":", "7", "}">>
\* {"t":"{{P}}"}
BodyNested ==
    <<"{", "\"", "t", "\"", ":", "\"", "{", "{", "P", "}", "}", "\"", "}">>
\* oops
BodyText == <<"o", "o", "p", "s">>

\* serde_json::from_str::<Value> on the bodies above: Ok(value) as Some(value),
\* Err as None.
ParseJson(body) ==
    IF body = BodyToken
    THEN Some(JObj((<<"t">> :> JStr(<<"a", "b">>)) @@ (<<"n">> :> JNum(7))))
    ELSE IF body = BodyNested
    THEN Some(JObj(<<"t">> :> JStr(<<"{", "{", "P", "}", "}">>)))
    ELSE None

RECURSIVE TrimStartMatches(_, _)
\* str::trim_start_matches(prefix): every repetition of the prefix is removed.
TrimStartMatches(text, prefix) ==
    IF /\ Len(prefix) > 0
       /\ Len(text) >= Len(prefix)
       /\ SubSeq(text, 1, Len(prefix)) = prefix
    THEN TrimStartMatches(SubSeq(text, Len(prefix) + 1, Len(text)), prefix)
    ELSE text

RECURSIVE SplitFrom(_, _, _, _)
SplitFrom(text, sep, i, cur) ==
    IF i > Len(text) THEN <<cur>>
    ELSE IF text[i] = sep
         THEN <<cur>> \o SplitFrom(text, sep, i + 1, <<>>)
         ELSE SplitFrom(text, sep, i + 1, Append(cur, text[i]))

\* str::split(sep).collect(): always at least one part.
Split(text, sep) == SplitFrom(text, sep, 1, <<>>)

RECURSIVE JoinText(_, _)
JoinText(parts, sep) ==
    IF Len(parts) = 0 THEN <<>>
    ELSE IF Len(parts) = 1 THEN parts[1]
    ELSE parts[1] \o sep \o JoinText(Tail(parts), sep)

RECURSIVE JsonToString(_)
RECURSIVE ObjectEntries(_, _)
\* The entries of an object, one text per key.
ObjectEntries(m, keys) ==
    IF keys = {} THEN <<>>
    ELSE LET k == CHOOSE x \in keys : TRUE
         IN  <<(<<"\"">> \o k \o <<"\"", ":">> \o JsonToString(m[k]))>>
             \o ObjectEntries(m, keys \ {k})

\* serde_json::Value::to_string (compact form).
JsonToString(j) ==
    CASE j.t = "null" -> <<"n", "u", "l", "l">>
      [] j.t = "bool" -> IF j.v THEN <<"t", "r", "u", "e">>
                         ELSE <<"f", "a", "l", "s", "e">>
      [] j.t = "num" -> IntToText(j.v)
      [] j.t = "str" -> <<"\"">> \o j.v \o <<"\"">>
      [] j.t = "arr" ->
           <<"[">> \o JoinText([i \in 1..Len(j.v) |-> JsonToString(j.v[i])], <<",">>)
                   \o <<"]">>
      [] j.t = "obj" ->
           <<"{">> \o JoinText(ObjectEntries(j.v, DOMAIN j.v), <<",">>) \o <<"}">>

RECURSIVE WalkJson(_, _, _)
\* The loop over the path segments: Some(node) when every segment was found
\* in an object, None at a missing key or a node that is not an object.
WalkJson(current, parts, i) ==
    IF i > Len(parts) THEN Some(current)
    ELSE IF current.t = "obj" /\ parts[i] \in DOMAIN current.v
         THEN WalkJson(current.v[parts[i]], parts, i + 1)
         ELSE None

\* WorkflowExecutor::extract_json_value
ExtractJsonValue(json, path) ==
    LET parts == Split(TrimStartMatches(path, <<"$", ".">>), ".")
        leaf == WalkJson(json, parts, 1)
    IN  IF ~IsSome(leaf) THEN <<>>
        ELSE LET current == Unwrap(leaf)
             IN  CASE current.t = "str" -> current.v
                   [] current.t = "num" -> IntToText(current.v)
                   [] current.t = "bool" -> IF current.v THEN <<"t", "r", "u", "e">>
                                            ELSE <<"f", "a", "l", "s", "e">>
                   [] current.t = "null" -> <<"n", "u", "l", "l">>
                   [] OTHER -> JsonToString(current)

\* The validator's copy rendering a null leaf as the empty text.
ExtractJsonPathNullEmpty(json, path) ==
    LET parts == Split(TrimStartMatches(path, <<"$", ".">>), ".")
        leaf == WalkJson(json, parts, 1)
    IN  IF ~IsSome(leaf) THEN <<>>
        ELSE LET current == Unwrap(leaf)
             IN  CASE current.t = "str" -> current.v
                   [] current.t = "num" -> IntToText(current.v)
                   [] current.t = "bool" -> IF current.v THEN <<"t", "r", "u", "e">>
                                            ELSE <<"f", "a", "l", "s", "e">>
                   [] current.t = "null" -> <<>>
                   [] OTHER -> JsonToString(current)

\* ResponseValidator::extract_json_path (a second copy of the same code).
ExtractJsonPath(json, path) ==
    LET parts == Split(TrimStartMatches(path, <<"$", ".">>), ".")
        leaf == WalkJson(json, parts, 1)
    IN  IF ~IsSome(leaf) THEN <<>>
        ELSE LET current == Unwrap(leaf)
             IN  CASE current.t = "str" -> current.v
                   [] current.t = "num" -> IntToText(current.v)
                   [] current.t = "bool" -> IF current.v THEN <<"t", "r", "u", "e">>
                                            ELSE <<"f", "a", "l", "s", "e">>
                   [] current.t = "null" -> <<"n", "u", "l", "l">>
                   [] OTHER -> JsonToString(current)

(***************************************************************************)
(* Messages: a fixed text followed by a piece of program text.             *)
(***************************************************************************)
Msg(text, arg) == [text |-> text, arg |-> arg]

(***************************************************************************)
(* Script hooks.  The code of a script is a sequence of statements of the  *)
(* scripting language, each [op, name, val, ref]:                          *)
(*   "let"    let name = val;          (val a string, integer or boolean)  *)
(*   "copy"   let name = ref;          (fails when ref is not in scope)    *)
(*   "resp"   let name = response[ref];                                    *)
(*   "log"    log(val);                                                    *)
(*   "throw"  throw val;                                                   *)
(* Values of the scripting language: [t |-> "str" | "int" | "bool" |       *)
(* "unit", v |-> payload].                                                 *)
(***************************************************************************)
DStr(s) == [t |-> "str", v |-> s]
DInt(n) == [t |-> "int", v |-> n]
DBool(b) == [t |-> "bool", v |-> b]
DUnit == [t |-> "unit", v |-> 0]

Let(name, val) == [op |-> "let", name |-> name, val |-> val, ref |-> <<>>]
Copy(name, ref) == [op |-> "copy", name |-> name, val |-> DUnit, ref |-> ref]
Resp(name, ref) == [op |-> "resp", name |-> name, val |-> DUnit, ref |-> ref]
Log(text) == [op |-> "log", name |-> <<>>, val |-> DStr(text), ref |-> <<>>]
Throw(text) == [op |-> "throw", name |-> <<>>, val |-> DStr(text), ref |-> <<>>]

\* Script::new
Script(script_type, code, enabled) ==
    [script_type |-> script_type, code |-> code, enabled |-> enabled]

\* Script::should_execute
ShouldExecute(script) == script.enabled /\ Len(script.code) > 0

\* ScriptContext::new
NewContext ==
    [variables |-> <<>>, request_data |-> <<>>, response_data |-> <<>>,
     console_output |-> <<>>]

\* ScriptContext::set_variable (HashMap::insert: the last write wins)
SetVariable(ctx, name, value) ==
    [ctx EXCEPT !.variables =
        [n \in (DOMAIN ctx.variables) \cup {name} |->
            IF n = name THEN value ELSE ctx.variables[n]]]

\* ScriptContext::set_response_data
SetResponseData(ctx, key, value) ==
    [ctx EXCEPT !.response_data =
        [k \in (DOMAIN ctx.response_data) \cup {key} |->
            IF k = key THEN value ELSE ctx.response_data[k]]]

RECURSIVE EvalWithScope(_, _, _, _, _)
\* Engine::eval_with_scope: the statements run in order on the scope; the
\* first failing statement ends the run with an error.
EvalWithScope(code, i, scope, logs, res_map) ==
    IF i > Len(code) THEN [ok |-> TRUE, scope |-> scope, logs |-> logs]
    ELSE LET st == code[i]
             bind(val) == [n \in (DOMAIN scope) \cup {st.name} |->
                              IF n = st.name THEN val ELSE scope[n]]
         IN  CASE st.op = "let" ->
                    EvalWithScope(code, i + 1, bind(st.val), logs, res_map)
               [] st.op = "copy" ->
                    IF st.ref \in DOMAIN scope
                    THEN EvalWithScope(code, i + 1, bind(scope[st.ref]), logs, res_map)
                    ELSE [ok |-> FALSE, scope |-> scope, logs |-> logs]
               [] st.op = "resp" ->
                    EvalWithScope(code, i + 1,
                        bind(IF st.ref \in DOMAIN res_map
                             THEN DStr(res_map[st.ref]) ELSE DUnit),
                        logs, res_map)
               [] st.op = "log" ->
                    EvalWithScope(code, i + 1, scope, Append(logs, st.val.v), res_map)
               [] OTHER -> [ok |-> FALSE, scope |-> scope, logs |-> logs]

ReservedNames ==
    {<<"r", "e", "q", "u", "e", "s", "t">>, <<"r", "e", "s", "p", "o", "n", "s", "e">>}

\* ScriptEngine::execute handing the console logs of a failed script to the
\* context.
EngineExecuteKeepsLogs(script, ctx) ==
    IF ~ShouldExecute(script) THEN [ok |-> TRUE, context |-> ctx]
    ELSE LET scope0 == [n \in DOMAIN ctx.variables |-> DStr(ctx.variables[n])]
             run == EvalWithScope(script.code, 1, scope0, <<>>, ctx.response_data)
         IN  IF ~run.ok
             THEN [ok |-> FALSE,
                   context |-> [ctx EXCEPT !.console_output = ctx.console_output \o run.logs]]
             ELSE LET kept == {n \in DOMAIN run.scope :
                                  n \notin ReservedNames /\ run.scope[n].t = "str"}
                  IN  [ok |-> TRUE,
                       context |->
                         [ctx EXCEPT
                            !.variables = [n \in kept |-> run.scope[n].v],
                            !.console_output = ctx.console_output \o run.logs]]

\* ScriptEngine::execute: Ok(()) or Err(Error::InvalidCommand), with the
\* context as the call leaves it.
EngineExecute(script, ctx) ==
    IF ~ShouldExecute(script) THEN [ok |-> TRUE, context |-> ctx]
    ELSE LET scope0 == [n \in DOMAIN ctx.variables |-> DStr(ctx.variables[n])]
             run == EvalWithScope(script.code, 1, scope0, <<>>, ctx.response_data)
         IN  IF ~run.ok THEN [ok |-> FALSE, context |-> ctx]
             ELSE LET kept == {n \in DOMAIN run.scope :
                                  n \notin ReservedNames /\ run.scope[n].t = "str"}
                  IN  [ok |-> TRUE,
                       context |->
                         [ctx EXCEPT
                            !.variables = [n \in kept |-> run.scope[n].v],
                            !.console_output = ctx.console_output \o run.logs]]

ScriptError == "Invalid command: Script execution error"

\* scripts::execute_pre_request
ExecutePreRequest(script, ctx) ==
    IF script.script_type # "PreRequest" THEN [ok |-> TRUE, context |-> ctx]
    ELSE EngineExecute(script, ctx)

\* scripts::execute_post_response
ExecutePostResponse(script, ctx) ==
    IF script.script_type # "PostResponse" THEN [ok |-> TRUE, context |-> ctx]
    ELSE EngineExecute(script, ctx)

(***************************************************************************)
(* Matchers, assertions and the response validator.                        *)
(***************************************************************************)
\* Matcher::new
Matcher(matcher_type, expected) ==
    [matcher_type |-> matcher_type, expected |-> expected]

\* str::contains
ContainsText(text, pat) ==
    \E i \in 1..(Len(text) + 1) :
        /\ i + Len(pat) - 1 <= Len(text)
        /\ SubSeq(text, i, i + Len(pat) - 1) = pat

\* str::starts_with
StartsWithText(text, pat) ==
    Len(pat) <= Len(text) /\ SubSeq(text, 1, Len(pat)) = pat

\* str::ends_with
EndsWithText(text, pat) ==
    Len(pat) <= Len(text) /\ SubSeq(text, Len(text) - Len(pat) + 1, Len(text)) = pat

NullText == <<"n", "u", "l", "l">>

\* The value of a decimal digit.
DigitValue(ch) == (CHOOSE i \in 1..10 : DigitChar[i] = ch) - 1

RECURSIVE StripZeros(_)
\* A digit string without its leading zeros (empty for zero).
StripZeros(digits) ==
    IF digits # <<>> /\ Head(digits) = "0" THEN StripZeros(Tail(digits)) ELSE digits

RECURSIVE CompareDigits(_, _)
\* Two digit strings of one length, compared digit by digit: -1, 0 or 1.
CompareDigits(a, b) ==
    IF a = <<>> THEN 0
    ELSE IF DigitValue(Head(a)) < DigitValue(Head(b)) THEN 0 - 1
    ELSE IF DigitValue(Head(a)) > DigitValue(Head(b)) THEN 1
    ELSE CompareDigits(Tail(a), Tail(b))

\* Two magnitudes (digit strings without leading zeros) compared: -1, 0 or 1.
CompareMagnitude(a, b) ==
    IF Len(a) < Len(b) THEN 0 - 1
    ELSE IF Len(a) > Len(b) THEN 1
    ELSE CompareDigits(a, b)

\* i64::MAX and the magnitude of i64::MIN, usize::MAX (64 bits), in digits.
MaxI64 == <<"9", "2", "2", "3", "3", "7", "2", "0", "3", "6", "8", "5", "4", "7", "7", "5", "8", "0", "7">>
MinI64Magnitude == <<"9", "2", "2", "3", "3", "7", "2", "0", "3", "6", "8", "5", "4", "7", "7", "5", "8", "0", "8">>
MaxUsize == <<"1", "8", "4", "4", "6", "7", "4", "4", "0", "7", "3", "7", "0", "9", "5", "5", "1", "6", "1", "5">>

\* str::parse for an integer type: an optional sign (a minus only for a
\* signed type), then one or more decimal digits and nothing else, the value
\* within the range of the type.  Some([neg, mag]) or None.
ParseInteger(text, signed, max_pos, max_neg) ==
    LET has_sign == text # <<>> /\ (text[1] = "+" \/ (signed /\ text[1] = "-"))
        neg == has_sign /\ text[1] = "-"
        digits == IF has_sign THEN Tail(text) ELSE text
        mag == StripZeros(digits)
    IN  IF digits = <<>> \/ \E i \in 1..Len(digits) : digits[i] \notin Digits
        THEN None
        ELSE IF CompareMagnitude(mag, IF neg THEN max_neg ELSE max_pos) > 0
        THEN None
        ELSE Some([neg |-> neg /\ mag # <<>>, mag |-> mag])

\* str::parse::<i64> taking a text that does not parse for zero.
ParseI64OrZero(text) ==
    LET parsed == ParseInteger(text, TRUE, MaxI64, MinI64Magnitude)
    IN  IF IsSome(parsed) THEN parsed ELSE Some([neg |-> FALSE, mag |-> <<>>])

\* str::parse::<i64>
ParseI64(text) == ParseInteger(text, TRUE, MaxI64, MinI64Magnitude)

\* str::parse::<usize>
ParseUsize(text) == ParseInteger(text, FALSE, MaxUsize, <<>>)

\* The order of two parsed integers: -1, 0 or 1.
CompareInteger(a, b) ==
    IF a.neg /\ ~b.neg THEN 0 - 1
    ELSE IF ~a.neg /\ b.neg THEN 1
    ELSE IF a.neg THEN CompareMagnitude(b.mag, a.mag)
    ELSE CompareMagnitude(a.mag, b.mag)

\* Characters outside ASCII stand in a text as one element each, named by
\* their code point; the number of bytes of a character in UTF-8.
Utf8Len(ch) ==
    IF ch = "U+00E9" THEN 2
    ELSE IF ch = "U+20AC" THEN 3
    ELSE 1

RECURSIVE ByteLen(_)
\* str::len: the length of a text in bytes.
ByteLen(text) ==
    IF text = <<>> THEN 0 ELSE Utf8Len(Head(text)) + ByteLen(Tail(text))

\* A usize as a parsed integer.
UsizeOf(n) ==
    [neg |-> FALSE, mag |-> IF n = 0 THEN <<>> ELSE NatToText(n)]

\* The numeric matchers: Some(order) of the two sides when both parse as
\* i64, None when one does not.
NumericCompare(actual, expected) ==
    LET a == ParseI64(actual)
        e == ParseI64(expected)
    IN  IF IsSome(a) /\ IsSome(e)
        THEN Some(CompareInteger(Unwrap(a), Unwrap(e)))
        ELSE None

\* Matcher::matches
Matches(matcher, actual) ==
    CASE matcher.matcher_type = "Equals" -> actual = matcher.expected
      [] matcher.matcher_type = "NotEquals" -> actual # matcher.expected
      [] matcher.matcher_type = "Contains" -> ContainsText(actual, matcher.expected)
      [] matcher.matcher_type = "NotContains" -> ~ContainsText(actual, matcher.expected)
      [] matcher.matcher_type = "StartsWith" -> StartsWithText(actual, matcher.expected)
      [] matcher.matcher_type = "EndsWith" -> EndsWithText(actual, matcher.expected)
      [] matcher.matcher_type = "IsEmpty" -> Len(actual) = 0
      [] matcher.matcher_type = "IsNotEmpty" -> Len(actual) # 0
      [] matcher.matcher_type = "IsNull" -> Len(actual) = 0 \/ actual = NullText
      [] matcher.matcher_type = "IsNotNull" -> Len(actual) # 0 /\ actual # NullText
      [] matcher.matcher_type = "LessThan" ->
           LET c == NumericCompare(actual, matcher.expected)
           IN  IF IsSome(c) THEN Unwrap(c) < 0 ELSE FALSE
      [] matcher.matcher_type = "LessThanOrEqual" ->
           LET c == NumericCompare(actual, matcher.expected)
           IN  IF IsSome(c) THEN Unwrap(c) <= 0 ELSE FALSE
      [] matcher.matcher_type = "GreaterThan" ->
           LET c == NumericCompare(actual, matcher.expected)
           IN  IF IsSome(c) THEN Unwrap(c) > 0 ELSE FALSE
      [] matcher.matcher_type = "GreaterThanOrEqual" ->
           LET c == NumericCompare(actual, matcher.expected)
           IN  IF IsSome(c) THEN Unwrap(c) >= 0 ELSE FALSE
      [] matcher.matcher_type = "HasLength" ->
           LET expected_len == ParseUsize(matcher.expected)
           IN  IF IsSome(expected_len)
               THEN UsizeOf(ByteLen(actual)) = Unwrap(expected_len)
               ELSE FALSE

\* Matcher::description
Description(matcher) ==
    CASE matcher.matcher_type = "Equals" -> Msg("equals", matcher.expected)
      [] matcher.matcher_type = "NotEquals" -> Msg("not equals", matcher.expected)
      [] matcher.matcher_type = "Contains" -> Msg("contains", matcher.expected)
      [] matcher.matcher_type = "NotContains" -> Msg("does not contain", matcher.expected)
      [] matcher.matcher_type = "StartsWith" -> Msg("starts with", matcher.expected)
      [] matcher.matcher_type = "EndsWith" -> Msg("ends with", matcher.expected)
      [] matcher.matcher_type = "IsEmpty" -> Msg("is empty", <<>>)
      [] matcher.matcher_type = "IsNotEmpty" -> Msg("is not empty", <<>>)
      [] matcher.matcher_type = "IsNull" -> Msg("is null", <<>>)
      [] matcher.matcher_type = "IsNotNull" -> Msg("is not null", <<>>)
      [] matcher.matcher_type = "LessThan" -> Msg("<", matcher.expected)
      [] matcher.matcher_type = "LessThanOrEqual" -> Msg("<=", matcher.expected)
      [] matcher.matcher_type = "GreaterThan" -> Msg(">", matcher.expected)
      [] matcher.matcher_type = "GreaterThanOrEqual" -> Msg(">=", matcher.expected)
      [] matcher.matcher_type = "HasLength" -> Msg("has length", matcher.expected)

\* Assertion: assertion_type is [kind, arg] with kind "StatusCode", "Header",
\* "Body", "ResponseTime", "JsonPath" or "Custom".
Assertion(kind, arg, matcher, enabled) ==
    [assertion_type |-> [kind |-> kind, arg |-> arg],
     matcher |-> matcher, enabled |-> enabled]

\* AssertionResult::pass
AssertionPass(assertion, actual, expected) ==
    [assertion |-> assertion, passed |-> TRUE, actual |-> actual,
     expected |-> expected, error |-> None]

\* AssertionResult::fail
AssertionFail(assertion, actual, expected, error) ==
    [assertion |-> assertion, passed |-> FALSE, actual |-> actual,
     expected |-> expected, error |-> Some(error)]

\* The pass-or-fail tail shared by the validate_* functions.
MatchResult(assertion, actual, shown, error) ==
    IF Matches(assertion.matcher, actual)
    THEN AssertionPass(assertion, shown, Description(assertion.matcher))
    ELSE AssertionFail(assertion, shown, Description(assertion.matcher), error)

\* validate_json_path matching the empty text when the body does not parse.
ValidateJsonPathEmptyOnError(resp, path, assertion) ==
    LET json_result == ParseJson(resp.body)
        actual == IF IsSome(json_result)
                  THEN ExtractJsonPath(Unwrap(json_result), path) ELSE <<>>
    IN  MatchResult(assertion, actual, actual, Msg("JSON path does not match", path))

\* ResponseValidator::validate_json_path
ValidateJsonPath(resp, path, assertion) ==
    LET json_result == ParseJson(resp.body)
    IN  IF IsSome(json_result)
        THEN LET actual == ExtractJsonPath(Unwrap(json_result), path)
             IN  MatchResult(assertion, actual, actual,
                             Msg("JSON path does not match", path))
        ELSE AssertionFail(assertion, resp.body, Description(assertion.matcher),
                           Msg("Failed to parse response as JSON", <<>>))

\* ResponseValidator::validate_assertion with validate_status_code,
\* validate_header, validate_body, validate_response_time, validate_custom.
ValidateAssertion(resp, assertion) ==
    LET kind == assertion.assertion_type.kind
        arg == assertion.assertion_type.arg
    IN  CASE kind = "StatusCode" ->
               MatchResult(assertion, IntToText(resp.status), IntToText(resp.status),
                           Msg("Status code does not match", <<>>))
          [] kind = "Header" ->
               LET actual == IF arg \in DOMAIN resp.headers
                             THEN resp.headers[arg] ELSE <<>>
               IN  MatchResult(assertion, actual, actual,
                               Msg("Header does not match", arg))
          [] kind = "Body" ->
               MatchResult(assertion, resp.body, resp.body,
                           Msg("Body does not match", <<>>))
          [] kind = "ResponseTime" ->
               MatchResult(assertion, IntToText(resp.duration),
                           IntToText(resp.duration) \o <<"m", "s">>,
                           Msg("Response time does not match", <<>>))
          [] kind = "JsonPath" -> ValidateJsonPath(resp, arg, assertion)
          [] OTHER ->
               AssertionPass(assertion, <<"c", "u", "s", "t", "o", "m">>, Msg("", arg))

\* ValidationReport::new
NewReport ==
    [results |-> <<>>, total |-> 0, passed |-> 0, failed |-> 0, success |-> TRUE]

\* add_result taking success from the result added last.
AddResultLastDecides(report, res) ==
    [results |-> Append(report.results, res),
     total |-> report.total + 1,
     passed |-> IF res.passed THEN report.passed + 1 ELSE report.passed,
     failed |-> IF res.passed THEN report.failed ELSE report.failed + 1,
     success |-> res.passed]

\* ValidationReport::add_result
AddResult(report, res) ==
    [results |-> Append(report.results, res),
     total |-> report.total + 1,
     passed |-> IF res.passed THEN report.passed + 1 ELSE report.passed,
     failed |-> IF res.passed THEN report.failed ELSE report.failed + 1,
     success |-> IF res.passed THEN report.success ELSE FALSE]

RECURSIVE ValidateFromRunsDisabled(_, _, _, _)
\* The validation loop without the test of enabled.
ValidateFromRunsDisabled(resp, assertions, i, report) ==
    IF i > Len(assertions) THEN report
    ELSE ValidateFromRunsDisabled(resp, assertions, i + 1,
                                  AddResult(report, ValidateAssertion(resp, assertions[i])))

RECURSIVE ValidateFromBreaksAtDisabled(_, _, _, _)
\* The validation loop left (break for continue) at a disabled assertion.
ValidateFromBreaksAtDisabled(resp, assertions, i, report) ==
    IF i > Len(assertions) THEN report
    ELSE IF ~assertions[i].enabled
         THEN report
         ELSE ValidateFromBreaksAtDisabled(resp, assertions, i + 1,
                  AddResult(report, ValidateAssertion(resp, assertions[i])))

RECURSIVE ValidateFrom(_, _, _, _)
\* The loop of ResponseValidator::validate from the i-th assertion on.
ValidateFrom(resp, assertions, i, report) ==
    IF i > Len(assertions) THEN report
    ELSE IF ~assertions[i].enabled
         THEN ValidateFrom(resp, assertions, i + 1, report)
         ELSE ValidateFrom(resp, assertions, i + 1,
                           AddResult(report, ValidateAssertion(resp, assertions[i])))

\* ResponseValidator::validate (assertions::validate_response wraps it in Ok)
Validate(resp, assertions) == ValidateFrom(resp, assertions, 1, NewReport)

\* ValidationReport::summary
ReportSummary(report) ==
    IF report.success
    THEN "All " \o NatToString(report.total) \o " assertions passed"
    ELSE NatToString(report.failed) \o " of " \o NatToString(report.total)
         \o " assertions failed"

(***************************************************************************)
(* Steps and chains the executor is run on.                                *)
(***************************************************************************)
Tok(name) == <<"{", "{">> \o name \o <<"}", "}">>

VarT == <<"T">>
VarP == <<"P">>
VarN == <<"N">>
VarS == <<"S">>
VarV == <<"V">>
VarW == <<"W">>
VarZ == <<"Z">>

PathT == <<"$", ".", "t">>
PathN == <<"$", ".", "n">>
PathNX == <<"$", ".", "n", ".", "x">>

\* WorkflowStep::new and its with_* builders
WorkflowStep(name, url, headers, query_params, body, pre, post, assertions, continue_on_error, extract_variables) ==
    [name |-> name, method |-> "GET", url |-> url, headers |-> headers,
     query_params |-> query_params, body |-> body,
     pre_request_script |-> pre, post_response_script |-> post,
     assertions |-> assertions, continue_on_error |-> continue_on_error,
     timeout |-> None, extract_variables |-> extract_variables]

\* WorkflowStep::with_timeout
WithTimeout(step, timeout) == [step EXCEPT !.timeout = Some(timeout)]

\* "Login": extracts T from $.t; its scripts never run (one of the wrong type,
\* one disabled).
StepLogin ==
    WorkflowStep("Login", <<"/", "l">>, << <<"h", ":", "1">> >>, <<>>, None,
        Some(Script("PostResponse", <<Throw(<<"e">>)>>, TRUE)),
        Some(Script("PostResponse", <<Throw(<<"e">>)>>, FALSE)),
        <<>>, FALSE, VarT :> PathT)

\* "Data": every template refers to the pool; the pre-request script sets P
\* to the text =p and N to the integer 5; one enabled and one disabled
\* assertion; a timeout of one unit of time.
StepData ==
    WithTimeout(
    WorkflowStep("Data", <<"/">> \o Tok(VarT),
        << <<"a", ":">> \o Tok(VarT) >>,
        << <<"q">> \o Tok(VarP) >>,
        Some(Tok(VarT) \o Tok(VarZ)),
        Some(Script("PreRequest",
                    <<Let(VarP, DStr(<<"=", "p">>)), Let(VarN, DInt(5)),
                      Log(<<"m">>)>>, TRUE)),
        None,
        <<Assertion("StatusCode", <<>>, Matcher("Equals", <<"2", "0", "0">>), TRUE),
          Assertion("Body", <<>>, Matcher("IsEmpty", <<>>), FALSE)>>,
        TRUE, <<>>),
    1)

\* "Check": the post-response script copies the status and P (it fails when
\* P is not in the pool); an assertion that $.n is not empty; extracts W from
\* a path that no body holds and T from $.t.
StepCheck ==
    WorkflowStep("Check", <<"/", "c">>, <<>>, <<>>, None,
        None,
        Some(Script("PostResponse",
                    <<Resp(VarS, <<"s", "t", "a", "t", "u", "s">>), Log(<<"s">>),
                      Copy(VarV, VarP)>>, TRUE)),
        <<Assertion("JsonPath", PathN, Matcher("IsNotEmpty", <<>>), TRUE)>>,
        FALSE, (VarW :> PathNX) @@ (VarT :> PathT))

\* "Probe": the pre-request script fails when T is not in the pool, the
\* header has no valid name when T holds a token, the query parameter is
\* malformed when P is not in the pool, and the post-response script always
\* fails after a partial run.
StepProbe ==
    WorkflowStep("Probe", <<"/", "x">>, << Tok(VarT) \o <<":", "1">> >>,
        << <<"k">> \o Tok(VarP) >>, None,
        Some(Script("PreRequest", <<Copy(VarV, VarT)>>, TRUE)),
        Some(Script("PostResponse",
                    <<Let(VarW, DStr(<<"w">>)), Log(<<"x">>), Throw(<<"e">>)>>, TRUE)),
        <<>>, TRUE, <<>>)

\* "Guard": Probe without continue_on_error.
StepGuard ==
    [StepProbe EXCEPT !.name = "Guard", !.continue_on_error = FALSE]

StepPool == {StepLogin, StepData, StepCheck, StepProbe, StepGuard}

RECURSIVE SeqsUpTo(_, _)
\* All sequences over S of length at most n.
SeqsUpTo(S, n) ==
    IF n = 0 THEN {<<>>}
    ELSE LET shorter == SeqsUpTo(S, n - 1)
         IN  shorter \cup {Append(q, x) : q \in shorter, x \in S}

\* ChainConfig
Configs ==
    [stop_on_failure : BOOLEAN,
     delay_between_requests : {None, Some(1)},
     max_duration : {None} \cup {Some(d) : d \in 1..MaxDurationLimit},
     iterations : 0..MaxIterations]

\* RequestChain
Chains ==
    [name : {"Chain"}, steps : SeqsUpTo(StepPool, MaxSteps), config : Configs]

(***************************************************************************)
(* The HTTP transport (HttpClient::execute).                               *)
(***************************************************************************)
HttpResponse(status, body) ==
    [status |-> status, headers |-> <<>>, body |-> body, duration |-> 0]

ResponsePool ==
    {HttpResponse(200, BodyToken), HttpResponse(200, BodyNested),
     HttpResponse(500, BodyText)}

\* Display of Error::HttpRequest
TransportErrors == {Msg("HTTP request failed: connection refused", <<>>)}

\* str::split_once: the index of the first occurrence of ch, or 0.
SplitOnceAt(text, ch) ==
    LET at == {i \in 1..Len(text) : text[i] = ch}
    IN  IF at = {} THEN 0 ELSE CHOOSE i \in at : \A k \in at : i <= k

\* The characters HeaderName::from_bytes accepts, among those of the model.
HeaderNameChar ==
    Lower \cup Upper \cup Digits
          \cup {"!", "#", "$", "%", "&", "*", "+", "-", ".", "^", "_", "|", "~"}

\* The characters HeaderValue::from_str accepts, among those of the model.
HeaderValueChar ==
    HeaderNameChar \cup {" ", "(", ")", ",", "/", ":", ";", "<", "=", ">", "?",
                         "@", "[", "]", "{", "}"}

\* The body of the loop of RequestBuilder::parse_headers for one header: the
\* error it returns, if any.
HeaderError(header) ==
    LET at == SplitOnceAt(header, ":")
        key == SubSeq(header, 1, at - 1)
        value == SubSeq(header, at + 1, Len(header))
    IN  IF at = 0
        THEN Some(Msg("Invalid header: Header must be in format 'Key:Value', got: ", header))
        ELSE IF key = <<>> \/ \E i \in 1..Len(key) : key[i] \notin HeaderNameChar
        THEN Some(Msg("Invalid header: Invalid header name: ", key))
        ELSE IF \E i \in 1..Len(value) : value[i] \notin HeaderValueChar
        THEN Some(Msg("Invalid header: Invalid header value: ", value))
        ELSE None

\* RequestBuilder::parse_headers: the error of the first header that has one.
ParseHeadersError(req) ==
    LET bad == {i \in 1..Len(req.headers) : IsSome(HeaderError(req.headers[i]))}
    IN  IF bad = {} THEN None
        ELSE HeaderError(req.headers[CHOOSE j \in bad : \A k \in bad : j <= k])

\* RequestBuilder::parse_query_params: every parameter needs an equals sign.
ParseQueryError(req) ==
    LET bad == {i \in 1..Len(req.query_params) :
                   ~ContainsText(req.query_params[i], <<"=">>)}
    IN  IF bad = {} THEN None
        ELSE LET i == CHOOSE j \in bad : \A k \in bad : j <= k
             IN  Some(Msg("Invalid query parameter: Query parameter must be in format 'key=value', got: ",
                          req.query_params[i]))

\* The error HttpClient::execute returns before anything is sent, if any.
RequestError(req) ==
    IF IsSome(ParseHeadersError(req)) THEN ParseHeadersError(req)
    ELSE ParseQueryError(req)

(***************************************************************************)
(* Results.                                                                *)
(***************************************************************************)
\* StepResult::success
StepSuccess(step_name, resp, extracted_variables, duration) ==
    [step_name |-> step_name, success |-> TRUE, response |-> Some(resp),
     error |-> None, extracted_variables |-> extracted_variables,
     duration |-> duration]

\* StepResult::failure
StepFailure(step_name, error, duration) ==
    [step_name |-> step_name, success |-> FALSE, response |-> None,
     error |-> Some(error), extracted_variables |-> <<>>, duration |-> duration]

\* ExecutionResult::new
NewExecutionResult(chain_name) ==
    [chain_name |-> chain_name, step_results |-> <<>>, success |-> TRUE,
     total_duration |-> 0, final_variables |-> <<>>]

\* add_step_result with the flag overwritten by the newest result.
AddStepResultOverwrites(res, step_result) ==
    [res EXCEPT
       !.success = step_result.success,
       !.total_duration = res.total_duration + step_result.duration,
       !.step_results = Append(res.step_results, step_result)]

\* ExecutionResult::add_step_result
AddStepResult(res, step_result) ==
    [res EXCEPT
       !.success = IF ~step_result.success THEN FALSE ELSE res.success,
       !.total_duration = res.total_duration + step_result.duration,
       !.step_results = Append(res.step_results, step_result)]

(***************************************************************************)
(* WorkflowExecutor::execute.  pc is the position of the one thread:       *)
(*   "iter"      at the head of the iteration loop                         *)
(*   "step"      at the head of the step loop, a step left to run          *)
(*   "send"      in execute_step, waiting for HttpClient::execute          *)
(*   "post"      in execute_step, the response stored, before the          *)
(*               post-response script                                      *)
(*   "validate"  in execute_step, before the assertions                    *)
(*   "maxdur"    after the step loop, before the max duration check        *)
(*   "final"     after the iteration loop was left by break                *)
(*   "done"      execute has returned                                      *)
(*   "idle"      execute is not called (the components on their own)       *)
(* call is the use of one component on its own, outside a chain execution  *)
(* (see the specifications of the components below); it is NoCall during   *)
(* a chain execution.                                                      *)
(* sent, recorded and slept are the history of the run: the calls of the   *)
(* transport, the (iteration, step) of every StepResult pushed, and the    *)
(* time spent in thread::sleep.                                            *)
(***************************************************************************)
\* No function of the library is called on its own.
NoCall == [op |-> "none"]

Steps == chain.steps
Config == chain.config
CurrentStep == Steps[stepIdx]
Durations == 0..MaxStepDuration

Init ==
    /\ chain \in Chains
    /\ pc = "iter"
    /\ iteration = 0
    /\ stepIdx = 1
    /\ result = NewExecutionResult(chain.name)
    /\ context = NewContext
    /\ request = None
    /\ response = None
    /\ sent = <<>>
    /\ recorded = <<>>
    /\ slept = 0
    /\ call = NoCall

\* The step loop ending one step early.
StepLoopAtSkipsLast(i) == IF i < Len(Steps) THEN "step" ELSE "maxdur"

\* The head of the step loop for index i: the next step, or the end of the loop.
StepLoopAt(i) == IF i <= Len(Steps) THEN "step" ELSE "maxdur"

\* The stop-on-failure test of the Ok arm of the match in execute.
BreakOnResult(step_result, step) ==
    ~step_result.success /\ Config.stop_on_failure /\ ~step.continue_on_error

\* BreakOnError with continue_on_error not consulted.
BreakOnErrorIgnoresContinue(step) ==
    Config.stop_on_failure

\* The stop-on-failure test of the Err arm of the match in execute.
BreakOnError(step) ==
    Config.stop_on_failure /\ ~step.continue_on_error

\* The break of the step loop leaving the iteration loop as well.
RecordBreaksChain(step_result, break) ==
    /\ result' = AddStepResult(result, step_result)
    /\ recorded' = Append(recorded, [iteration |-> iteration, step |-> stepIdx])
    /\ request' = None
    /\ response' = None
    /\ IF break
       THEN pc' = "final" /\ stepIdx' = stepIdx
       ELSE pc' = StepLoopAt(stepIdx + 1) /\ stepIdx' = stepIdx + 1

\* The tail of one pass of the step loop: the StepResult is pushed and the
\* loop breaks or goes to the next step.
Record(step_result, break) ==
    /\ result' = AddStepResult(result, step_result)
    /\ recorded' = Append(recorded, [iteration |-> iteration, step |-> stepIdx])
    /\ request' = None
    /\ response' = None
    /\ IF break
       THEN pc' = "maxdur" /\ stepIdx' = stepIdx
       ELSE pc' = StepLoopAt(stepIdx + 1) /\ stepIdx' = stepIdx + 1

\* The Err arm recording a fixed message in place of the error.
RecordErrDropsText(e, d) ==
    Record(StepFailure(CurrentStep.name, Msg("Unknown error", <<>>), d),
           BreakOnError(CurrentStep))

\* The error of execute_step handed on to the caller of execute
\* (execute_step(..)? in place of the match): execute returns Err(e).
RecordErrPropagates(e, d) ==
    /\ pc' = "failed"
    /\ UNCHANGED <<result, recorded, request, response, stepIdx>>

\* execute_step returned Err(e): the Err arm of the match.
RecordErr(e, d) ==
    Record(StepFailure(CurrentStep.name, e, d), BreakOnError(CurrentStep))

\* execute_step returned Ok(step_result): the Ok arm of the match.
RecordOk(step_result) ==
    Record(step_result, BreakOnResult(step_result, CurrentStep))

\* The head of the iteration loop with a fresh context in every iteration.
BeginIterationResetsContext ==
    /\ pc = "iter"
    /\ iteration < Config.iterations
    /\ slept' = IF iteration > 0 /\ IsSome(Config.delay_between_requests)
                THEN slept + Unwrap(Config.delay_between_requests)
                ELSE slept
    /\ stepIdx' = 1
    /\ pc' = StepLoopAt(1)
    /\ context' = NewContext
    /\ UNCHANGED <<call, chain, iteration, result, request, response, sent, recorded>>

\* for iteration in 0..iterations: the delay and the entry of the step loop.
BeginIteration ==
    /\ pc = "iter"
    /\ iteration < Config.iterations
    /\ slept' = IF iteration > 0 /\ IsSome(Config.delay_between_requests)
                THEN slept + Unwrap(Config.delay_between_requests)
                ELSE slept
    /\ stepIdx' = 1
    /\ pc' = StepLoopAt(1)
    /\ UNCHANGED <<call, chain, iteration, result, context, request, response, sent, recorded>>

\* The request execute_step builds from the step and the variables.
BuildRequest(step, variables) ==
    [method |-> step.method,
     url |-> Substitute(step.url, variables),
     headers |-> [i \in 1..Len(step.headers) |-> Substitute(step.headers[i], variables)],
     query_params |->
        [i \in 1..Len(step.query_params) |-> Substitute(step.query_params[i], variables)],
     body |-> IF IsSome(step.body)
              THEN Some(Substitute(Unwrap(step.body), variables))
              ELSE None]

\* The pre-request hook of execute_step.
PreRequest(step, ctx) ==
    IF IsSome(step.pre_request_script)
    THEN ExecutePreRequest(Unwrap(step.pre_request_script), ctx)
    ELSE [ok |-> TRUE, context |-> ctx]

\* The post-response hook of execute_step.
PostResponse(step, ctx) ==
    IF IsSome(step.post_response_script)
    THEN ExecutePostResponse(Unwrap(step.post_response_script), ctx)
    ELSE [ok |-> TRUE, context |-> ctx]

\* execute_step with the request built before the pre-request script runs.
BeginStepSubstitutesFirst ==
    /\ pc = "step"
    /\ LET pre == PreRequest(CurrentStep, context)
       IN  /\ pre.ok
           /\ context' = pre.context
           /\ request' = Some(BuildRequest(CurrentStep, context.variables))
           /\ sent' = Append(sent, [iteration |-> iteration, step |-> stepIdx,
                                    request |-> Unwrap(request')])
    /\ pc' = "send"
    /\ UNCHANGED <<call, chain, iteration, stepIdx, result, response, recorded, slept>>

\* execute_step up to the call of the transport: the pre-request script ran,
\* the request is built from the pool and handed to HttpClient::execute.
BeginStep ==
    /\ pc = "step"
    /\ LET pre == PreRequest(CurrentStep, context)
       IN  /\ pre.ok
           /\ context' = pre.context
           /\ request' = Some(BuildRequest(CurrentStep, pre.context.variables))
           /\ sent' = Append(sent, [iteration |-> iteration, step |-> stepIdx,
                                    request |-> Unwrap(request')])
    /\ pc' = "send"
    /\ UNCHANGED <<call, chain, iteration, stepIdx, result, response, recorded, slept>>

\* The error of the pre-request script dropped: the request is built from
\* the pool as it is and sent.
PreRequestFailsIgnored ==
    /\ pc = "step"
    /\ ~PreRequest(CurrentStep, context).ok
    /\ request' = Some(BuildRequest(CurrentStep, context.variables))
    /\ sent' = Append(sent, [iteration |-> iteration, step |-> stepIdx,
                             request |-> Unwrap(request')])
    /\ pc' = "send"
    /\ UNCHANGED <<call, chain, iteration, stepIdx, result, context, response, recorded, slept>>

\* The pre-request script failed: execute_step returns the error.
PreRequestFails ==
    /\ pc = "step"
    /\ ~PreRequest(CurrentStep, context).ok
    /\ context' = PreRequest(CurrentStep, context).context
    /\ \E d \in Durations : RecordErr(Msg(ScriptError, <<>>), d)
    /\ UNCHANGED <<call, chain, iteration, sent, slept>>

\* HttpClient::execute returned an error: a malformed header or query
\* parameter, or a failure of the transport.
TransportFails ==
    /\ pc = "send"
    /\ \E e \in (IF IsSome(RequestError(Unwrap(request)))
                 THEN {Unwrap(RequestError(Unwrap(request)))}
                 ELSE TransportErrors) :
       \E d \in Durations : RecordErr(e, d)
    /\ UNCHANGED <<call, chain, iteration, context, sent, slept>>

\* The response facts stored in the variable pool, not in the response data.
TransportRespondsStoresInPool ==
    /\ pc = "send"
    /\ ~IsSome(RequestError(Unwrap(request)))
    /\ \E resp \in ResponsePool :
          /\ response' = Some(resp)
          /\ context' = SetVariable(
                            SetVariable(context, <<"s", "t", "a", "t", "u", "s">>,
                                        IntToText(resp.status)),
                            <<"b", "o", "d", "y">>, resp.body)
    /\ pc' = "post"
    /\ UNCHANGED <<call, chain, iteration, stepIdx, result, request, sent, recorded, slept>>

\* HttpClient::execute returned a response; status and body are stored in
\* the response data of the context.
TransportResponds ==
    /\ pc = "send"
    /\ ~IsSome(RequestError(Unwrap(request)))
    /\ \E resp \in ResponsePool :
          /\ response' = Some(resp)
          /\ context' = SetResponseData(
                            SetResponseData(context, <<"s", "t", "a", "t", "u", "s">>,
                                            IntToText(resp.status)),
                            <<"b", "o", "d", "y">>, resp.body)
    /\ pc' = "post"
    /\ UNCHANGED <<call, chain, iteration, stepIdx, result, request, sent, recorded, slept>>

\* The post-response script ran (or there is none).
PostResponseDone ==
    /\ pc = "post"
    /\ LET post == PostResponse(CurrentStep, context)
       IN  post.ok /\ context' = post.context
    /\ pc' = "validate"
    /\ UNCHANGED <<call, chain, iteration, stepIdx, result, request, response, sent,
                   recorded, slept>>

\* The post-response script failed: execute_step returns the error.
PostResponseFails ==
    /\ pc = "post"
    /\ ~PostResponse(CurrentStep, context).ok
    /\ context' = PostResponse(CurrentStep, context).context
    /\ \E d \in Durations : RecordErr(Msg(ScriptError, <<>>), d)
    /\ UNCHANGED <<call, chain, iteration, sent, slept>>

\* The report of the step's assertions on the response.
StepReport(step, resp) == Validate(resp, step.assertions)

\* Whether the assertions make execute_step return a failure.
AssertionsFail(step, resp) ==
    Len(step.assertions) > 0 /\ ~StepReport(step, resp).success

\* The extraction loop of execute_step: the variables written, by name.
Extracted(step, resp) ==
    LET json == ParseJson(resp.body)
    IN  IF IsSome(json)
        THEN [n \in DOMAIN step.extract_variables |->
                 ExtractJsonValue(Unwrap(json), step.extract_variables[n])]
        ELSE <<>>

\* The extraction loop writing nothing into the context.
WithExtractedDropped(ctx, extracted) == ctx

\* The context after the extraction loop.
WithExtracted(ctx, extracted) ==
    [ctx EXCEPT !.variables =
        [n \in (DOMAIN ctx.variables) \cup (DOMAIN extracted) |->
            IF n \in DOMAIN extracted THEN extracted[n] ELSE ctx.variables[n]]]

\* The variables extracted before the assertions are looked at.
ValidationFailsAfterExtraction ==
    /\ pc = "validate"
    /\ AssertionsFail(CurrentStep, Unwrap(response))
    /\ context' = WithExtracted(context, Extracted(CurrentStep, Unwrap(response)))
    /\ \E d \in Durations :
          RecordOk(StepFailure(CurrentStep.name,
                               Msg("Assertions failed: "
                                   \o ReportSummary(StepReport(CurrentStep, Unwrap(response))),
                                   <<>>),
                               d))
    /\ UNCHANGED <<call, chain, iteration, sent, slept>>

\* The failure returned for failed assertions retaining the response.
ValidationFailsKeepsResponse ==
    /\ pc = "validate"
    /\ AssertionsFail(CurrentStep, Unwrap(response))
    /\ \E d \in Durations :
          RecordOk([StepFailure(CurrentStep.name,
                                Msg("Assertions failed: "
                                    \o ReportSummary(StepReport(CurrentStep, Unwrap(response))),
                                    <<>>),
                                d) EXCEPT !.response = response])
    /\ UNCHANGED <<call, chain, iteration, context, sent, slept>>

\* The assertions failed: execute_step returns Ok(StepResult::failure).
ValidationFails ==
    /\ pc = "validate"
    /\ AssertionsFail(CurrentStep, Unwrap(response))
    /\ \E d \in Durations :
          RecordOk(StepFailure(CurrentStep.name,
                               Msg("Assertions failed: "
                                   \o ReportSummary(StepReport(CurrentStep, Unwrap(response))),
                                   <<>>),
                               d))
    /\ UNCHANGED <<call, chain, iteration, context, sent, slept>>

\* The assertions passed (or there are none): the variables are extracted
\* and execute_step returns Ok(StepResult::success).
CompleteStep ==
    /\ pc = "validate"
    /\ ~AssertionsFail(CurrentStep, Unwrap(response))
    /\ LET extracted == Extracted(CurrentStep, Unwrap(response))
       IN  /\ context' = WithExtracted(context, extracted)
           /\ \E d \in Durations :
                 RecordOk(StepSuccess(CurrentStep.name, Unwrap(response), extracted, d))
    /\ UNCHANGED <<call, chain, iteration, sent, slept>>

\* The max duration check with a strict comparison.
MaxDurationExceeded ==
    /\ IsSome(Config.max_duration)
    /\ result.total_duration > Unwrap(Config.max_duration)

\* Whether the max duration check leaves the iteration loop.
MaxDurationReached ==
    /\ IsSome(Config.max_duration)
    /\ result.total_duration >= Unwrap(Config.max_duration)

\* The max duration check breaks the iteration loop.
MaxDurationBreak ==
    /\ pc = "maxdur"
    /\ MaxDurationReached
    /\ pc' = "final"
    /\ UNCHANGED <<call, chain, iteration, stepIdx, result, context, request, response,
                   sent, recorded, slept>>

\* The max duration check passes: the iteration loop goes on.
NextIteration ==
    /\ pc = "maxdur"
    /\ ~MaxDurationReached
    /\ iteration' = iteration + 1
    /\ pc' = "iter"
    /\ UNCHANGED <<call, chain, stepIdx, result, context, request, response, sent,
                   recorded, slept>>

\* After the iteration loop: the pool is copied into final_variables and
\* execute returns Ok(result).
Finish ==
    /\ \/ pc = "final"
       \/ pc = "iter" /\ iteration >= Config.iterations
    /\ result' = [result EXCEPT !.final_variables = context.variables]
    /\ pc' = "done"
    /\ UNCHANGED <<call, chain, iteration, stepIdx, context, request, response, sent,
                   recorded, slept>>

Next ==
    \/ BeginIteration
    \/ BeginStep
    \/ PreRequestFails
    \/ TransportFails
    \/ TransportResponds
    \/ PostResponseDone
    \/ PostResponseFails
    \/ ValidationFails
    \/ CompleteStep
    \/ MaxDurationBreak
    \/ NextIteration
    \/ Finish

Spec == Init /\ [][Next]_vars

(***************************************************************************)
(* The components on their own.  No chain is executed; call holds the      *)
(* arguments of the call and what it has returned or built so far.         *)
(***************************************************************************)
\* ChainConfig::new
DefaultConfig ==
    [stop_on_failure |-> TRUE, delay_between_requests |-> None,
     max_duration |-> None, iterations |-> 1]

\* No chain is executed.
NoRun ==
    /\ chain = [name |-> "Chain", steps |-> <<>>, config |-> DefaultConfig]
    /\ pc = "idle"
    /\ iteration = 0
    /\ stepIdx = 1
    /\ result = NewExecutionResult("Chain")
    /\ context = NewContext
    /\ request = None
    /\ response = None
    /\ sent = <<>>
    /\ recorded = <<>>
    /\ slept = 0

\* Assertions of every type of the validator, enabled and disabled, passing
\* and failing.
AssertionPool ==
    {Assertion("StatusCode", <<>>, Matcher("Equals", <<"2", "0", "0">>), TRUE),
     Assertion("StatusCode", <<>>, Matcher("Equals", <<"2", "0", "0">>), FALSE),
     Assertion("Body", <<>>, Matcher("IsEmpty", <<>>), TRUE),
     Assertion("Body", <<>>, Matcher("IsEmpty", <<>>), FALSE),
     Assertion("JsonPath", PathT, Matcher("IsEmpty", <<>>), TRUE),
     Assertion("JsonPath", PathT, Matcher("IsNull", <<>>), TRUE),
     Assertion("JsonPath", PathT, Matcher("NotEquals", <<"a", "b">>), TRUE),
     Assertion("JsonPath", PathT, Matcher("NotContains", <<"a">>), TRUE),
     Assertion("JsonPath", PathN, Matcher("IsNotEmpty", <<>>), TRUE),
     Assertion("JsonPath", PathN, Matcher("Equals", <<"7">>), FALSE)}

\* The AssertionResults of the pool on one response.
ResultPool ==
    {ValidateAssertion(HttpResponse(200, BodyToken), a) : a \in AssertionPool}

\* A new ValidationReport.
ReportInit ==
    /\ NoRun
    /\ call = [op |-> "add_result", report |-> NewReport]

\* report.add_result(res)
AddResultCall ==
    /\ call.op = "add_result"
    /\ call.report.total < MaxResults
    /\ \E res \in ResultPool :
          call' = [call EXCEPT !.report = AddResult(call.report, res)]
    /\ UNCHANGED executor

ReportNext == AddResultCall

ReportSpec == ReportInit /\ [][ReportNext]_vars

\* The arguments of a call of validate.
ValidateInit ==
    /\ NoRun
    /\ \E resp \in ResponsePool, assertions \in SeqsUpTo(AssertionPool, MaxAssertions) :
          call = [op |-> "validate", response |-> resp, assertions |-> assertions,
                  report |-> None]

\* validator.validate(response, assertions)
ValidateCall ==
    /\ call.op = "validate"
    /\ call.report = None
    /\ call' = [call EXCEPT !.report = Some(Validate(call.response, call.assertions))]
    /\ UNCHANGED executor

ValidateNext == ValidateCall

ValidateSpec == ValidateInit /\ [][ValidateNext]_vars

RECURSIVE Flatten(_)
\* The concatenation of a sequence of texts.
Flatten(pieces) ==
    IF pieces = <<>> THEN <<>> ELSE Head(pieces) \o Flatten(Tail(pieces))

\* Pieces of text: tokens, a token whose name is no identifier, an empty
\* token, halves of tokens, and single characters.
PiecePool ==
    {Tok(<<"A">>), Tok(<<"B">>), Tok(<<"_", "a", "1">>), Tok(<<"1", "A">>), Tok(<<>>),
     <<"{", "{">>, <<"}", "}">>, <<"{", "{", "A", "}">>, <<"{">>, <<"}">>, <<"A">>, <<"/">>}

\* The texts made of at most MaxPieces pieces.
Texts == {Flatten(pieces) : pieces \in SeqsUpTo(PiecePool, MaxPieces)}

\* Variable maps: empty, one name, a value that holds a token, an empty value.
VariableMaps ==
    {<<>>,
     <<"A">> :> <<"x">>,
     (<<"A">> :> Tok(<<"B">>)) @@ (<<"B">> :> <<"y">>),
     (<<"B">> :> <<>>) @@ (<<"_", "a", "1">> :> <<"/">>)}

\* The arguments of the calls of the substitutor.
SubstitutorInit ==
    /\ NoRun
    /\ \E text \in Texts, variables \in VariableMaps :
          call = [op |-> "substitutor", text |-> text, variables |-> variables,
                  substituted |-> None, validated |-> <<>>]

\* substitutor.substitute(text, variables)
SubstituteCall ==
    /\ call.op = "substitutor"
    /\ call.substituted = None
    /\ call' = [call EXCEPT !.substituted = Some(Substitute(call.text, call.variables))]
    /\ UNCHANGED executor

\* substitutor.validate(text, variables), at most twice
SubstitutorValidateCall ==
    /\ call.op = "substitutor"
    /\ Len(call.validated) < 2
    /\ call' = [call EXCEPT !.validated =
                    Append(@, SubstitutorValidate(call.text, call.variables))]
    /\ UNCHANGED executor

SubstitutorNext == SubstituteCall \/ SubstitutorValidateCall

SubstitutorSpec == SubstitutorInit /\ [][SubstitutorNext]_vars

\* ---------------------------------------------------------------------------
\* The matcher on its own: matches(actual) of one matcher.

\* The matchers that compare integers.
NumericTypes == {"LessThan", "LessThanOrEqual", "GreaterThan", "GreaterThanOrEqual"}

\* Texts given to the numeric matchers: integers with and without a sign or
\* leading zeros, the ends of the 64-bit range, and texts that are no i64.
NumberTexts ==
    {<<"5">>,
     <<"1", "0">>,
     <<"-", "3">>,
     <<"+", "7">>,
     <<"0", "0", "7">>,
     <<"-", "0">>,
     <<"1", "0", "0", "0">>,
     <<"9", "2", "2", "3", "3", "7", "2", "0", "3", "6", "8", "5", "4", "7", "7", "5", "8", "0", "7">>,
     <<"-", "9", "2", "2", "3", "3", "7", "2", "0", "3", "6", "8", "5", "4", "7", "7", "5", "8", "0", "8">>,
     <<>>,
     <<"a", "b", "c">>,
     <<"1", ".", "5">>,
     <<" ", "5">>,
     <<"5", " ">>,
     <<"-">>,
     <<"+">>,
     <<"1", "2", "a">>,
     <<"9", "2", "2", "3", "3", "7", "2", "0", "3", "6", "8", "5", "4", "7", "7", "5", "8", "0", "8">>,
     <<"-", "9", "2", "2", "3", "3", "7", "2", "0", "3", "6", "8", "5", "4", "7", "7", "5", "8", "0", "9">>}

\* Texts whose length is asked for, two of them with characters outside ASCII.
LengthActuals ==
    {<<>>, <<"a", "b">>, <<"h", "e", "l", "l", "o">>, <<"U+00E9">>,
     <<"a", "U+20AC">>, <<"1", "2", "3", "4", "5", "6", "7", "8", "9", "0", "x">>}

\* Texts given as the expected length.
LengthTexts ==
    {<<"0">>,
     <<"1">>,
     <<"2">>,
     <<"3">>,
     <<"5">>,
     <<"+", "2">>,
     <<"0", "2">>,
     <<"1", "1">>,
     <<"-", "1">>,
     <<>>,
     <<"x">>,
     <<"2", " ">>,
     <<"1", "8", "4", "4", "6", "7", "4", "4", "0", "7", "3", "7", "0", "9", "5", "5", "1", "6", "1", "5">>,
     <<"1", "8", "4", "4", "6", "7", "4", "4", "0", "7", "3", "7", "0", "9", "5", "5", "1", "6", "1", "6">>}

\* The matcher and the actual text of the call.
MatcherInit ==
    /\ NoRun
    /\ \/ \E matcher_type \in NumericTypes, actual \in NumberTexts, expected \in NumberTexts :
              call = [op |-> "matches", matcher |-> Matcher(matcher_type, expected),
                      actual |-> actual, result |-> None]
       \/ \E actual \in LengthActuals, expected \in LengthTexts :
              call = [op |-> "matches", matcher |-> Matcher("HasLength", expected),
                      actual |-> actual, result |-> None]

\* matcher.matches(actual)
MatchesCall ==
    /\ call.op = "matches"
    /\ call.result = None
    /\ call' = [call EXCEPT !.result = Some(Matches(call.matcher, call.actual))]
    /\ UNCHANGED executor

MatcherNext == MatchesCall

MatcherSpec == MatcherInit /\ [][MatcherNext]_vars

(***************************************************************************)
(* Properties of the chain execution.                                      *)
(***************************************************************************)
StepResults == result.step_results
NumResults == Len(StepResults)
InStep == pc \in {"send", "post", "validate"}
BetweenSteps == pc \in {"step", "maxdur", "iter", "final", "done"}

\* The j-th StepResult is a failure that the stop-on-failure policy acts on.
StopsIteration(j) ==
    /\ ~StepResults[j].success
    /\ Config.stop_on_failure
    /\ ~Steps[recorded[j].step].continue_on_error

\* Step k of iteration i is the one recorded next after the j-th StepResult,
\* or the one that is running or about to run when the j-th is the last.
RunsNext(j, i, k) ==
    IF j < NumResults
    THEN recorded[j + 1] = [iteration |-> i, step |-> k]
    ELSE pc \in {"step", "send", "post", "validate"} /\ iteration = i /\ stepIdx = k

\* C1: once step k of an iteration is recorded and a step k+1 is declared,
\* step k+1 of that iteration runs next if and only if it is not the case
\* that step k failed, stop_on_failure is set and step k does not continue on
\* error, whatever made step k fail; and a chain of 2 steps and 1 iteration
\* whose step 1 fails under stop_on_failure without continue_on_error ends
\* with exactly 1 StepResult.
C1_NextStepIffNotStopped ==
    /\ \A j \in 1..NumResults :
          recorded[j].step < Len(Steps) =>
             (RunsNext(j, recorded[j].iteration, recorded[j].step + 1)
                <=> ~StopsIteration(j))
    /\ ( /\ pc = "done"
         /\ Len(Steps) = 2
         /\ Config.iterations = 1
         /\ NumResults > 0
         /\ StopsIteration(1) )
       => NumResults = 1

\* Under stop_on_failure a step failed by its script, continues on error,
\* and the second step ran.
C1_Witness ==
    /\ pc = "done"
    /\ Config.stop_on_failure
    /\ Config.iterations = 1
    /\ NumResults = 2
    /\ ~StepResults[1].success /\ Steps[1].continue_on_error
    /\ StepResults[1].error = Some(Msg(ScriptError, <<>>))
    /\ recorded[2] = [iteration |-> 0, step |-> 2]

\* C2: the success flag of the result is false exactly when some recorded
\* StepResult is a failure; without StepResults it is true.
C2_SuccessIffNoFailure ==
    (~result.success) <=> (\E j \in 1..NumResults : ~StepResults[j].success)

\* A success was recorded after a failure.
C2_Witness ==
    /\ NumResults >= 2
    /\ ~StepResults[1].success
    /\ StepResults[NumResults].success
    /\ ~result.success

\* C3: the StepResults come iteration by iteration, within an iteration as a
\* prefix of the declared steps in declared order; a request is handed to the
\* transport only when the result of the previous step is recorded; and a run
\* without failures and without max duration ends with iterations times
\* step_count StepResults.
C3_SequentialOrder ==
    /\ \A j \in 1..NumResults :
          /\ StepResults[j].step_name = Steps[recorded[j].step].name
          /\ recorded[j].iteration \in 0..(Config.iterations - 1)
          /\ IF j = 1 \/ recorded[j].iteration # recorded[IF j = 1 THEN 1 ELSE j - 1].iteration
             THEN /\ recorded[j].step = 1
                  /\ j > 1 => recorded[j].iteration > recorded[j - 1].iteration
             ELSE recorded[j].step = recorded[j - 1].step + 1
    /\ InStep =>
          /\ Len(sent) > 0
          /\ sent[Len(sent)].iteration = iteration
          /\ sent[Len(sent)].step = stepIdx
          /\ \A m \in 1..(Len(sent) - 1) :
                \E j \in 1..NumResults :
                   recorded[j] = [iteration |-> sent[m].iteration, step |-> sent[m].step]
          /\ \A j \in 1..NumResults :
                \/ recorded[j].iteration < iteration
                \/ recorded[j].iteration = iteration /\ recorded[j].step < stepIdx
          /\ stepIdx > 1 =>
                /\ NumResults > 0
                /\ recorded[NumResults] = [iteration |-> iteration, step |-> stepIdx - 1]
    /\ ( /\ pc = "done"
         /\ Config.max_duration = None
         /\ \A j \in 1..NumResults : StepResults[j].success )
       => NumResults = Config.iterations * Len(Steps)

\* Two iterations of two steps, all successful.
C3_Witness ==
    /\ pc = "done"
    /\ Config.max_duration = None
    /\ NumResults = 4
    /\ \A j \in 1..NumResults : StepResults[j].success
    /\ recorded[3] = [iteration |-> 1, step |-> 1]

Newest(res) == res.step_results[Len(res.step_results)]
RecordedStep(j) == Steps[recorded[j].step]
TextAB == <<"a", "b">>

\* The value a body holds at a path, for the bodies of ResponsePool and the
\* paths the steps extract: Some(value), or None when the body is not JSON or
\* holds nothing at the path.
HeldValue(body, path) ==
    IF body = BodyToken /\ path = PathT THEN Some(TextAB)
    ELSE IF body = BodyNested /\ path = PathT THEN Some(Tok(VarP))
    ELSE None

\* What a token of the given name becomes under the pool.
Resolved(name) ==
    IF name \in DOMAIN context.variables THEN context.variables[name] ELSE Tok(name)

\* The request of each step, written out from its templates part by part.
ExpectedRequest(step) ==
    CASE step.name = "Login" ->
           [method |-> "GET", url |-> <<"/", "l">>, headers |-> << <<"h", ":", "1">> >>,
            query_params |-> <<>>, body |-> None]
      [] step.name = "Data" ->
           [method |-> "GET", url |-> <<"/">> \o Resolved(VarT),
            headers |-> << <<"a", ":">> \o Resolved(VarT) >>,
            query_params |-> << <<"q">> \o Resolved(VarP) >>,
            body |-> Some(Resolved(VarT) \o Resolved(VarZ))]
      [] step.name = "Check" ->
           [method |-> "GET", url |-> <<"/", "c">>, headers |-> <<>>,
            query_params |-> <<>>, body |-> None]
      [] step.name \in {"Probe", "Guard"} ->
           [method |-> "GET", url |-> <<"/", "x">>,
            headers |-> << Resolved(VarT) \o <<":", "1">> >>,
            query_params |-> << <<"k">> \o Resolved(VarP) >>, body |-> None]

\* C4: right after a succeeded step, every variable it extracts from a path
\* at which the JSON body holds a value is in the pool with that value; the
\* request a step hands to the transport is its templates with every token
\* of a pool variable replaced by the pool's current value; and
\* final_variables is the pool as it stands when the run ends.
C4_ExtractionFlowsToLaterSteps ==
    /\ (BetweenSteps /\ NumResults > 0 /\ Newest(result).success) =>
          \A name \in DOMAIN RecordedStep(NumResults).extract_variables :
             LET held == HeldValue(Unwrap(Newest(result).response).body,
                                   RecordedStep(NumResults).extract_variables[name])
             IN  IsSome(held) =>
                    /\ name \in DOMAIN context.variables
                    /\ context.variables[name] = Unwrap(held)
                    /\ name \in DOMAIN Newest(result).extracted_variables
                    /\ Newest(result).extracted_variables[name] = Unwrap(held)
    /\ pc = "send" =>
          /\ Unwrap(request) = ExpectedRequest(CurrentStep)
          /\ sent[Len(sent)].request = Unwrap(request)
    /\ pc = "done" => result.final_variables = context.variables

\* T was extracted as ab by step 1 and step 2 sends it in its URL.
C4_Witness ==
    /\ pc = "send"
    /\ stepIdx = 2
    /\ CurrentStep.name = "Data"
    /\ NumResults = 1
    /\ Newest(result).success
    /\ VarT \in DOMAIN Newest(result).extracted_variables
    /\ Newest(result).extracted_variables[VarT] = TextAB
    /\ Unwrap(request).url = <<"/", "a", "b">>
    /\ Unwrap(request).body = Some(<<"a", "b", "{", "{", "Z", "}", "}">>)

\* The step from pc = "send" that is not the arrival of a response: the
\* transport call returned an error.
TransportErrorStep == pc = "send" /\ pc' # "post"

\* C5: when the transport call of a step returns an error, one failed
\* StepResult without response and with the error of the call is recorded,
\* nothing of the context changes (no post-response script, no extraction),
\* and the transport is not called again; no step is recorded twice and no
\* step calls the transport twice in one iteration.
C5_TransportErrorRecordedOnce ==
    /\ [][TransportErrorStep =>
            /\ Len(result'.step_results) = NumResults + 1
            /\ ~Newest(result').success
            /\ Newest(result').response = None
            /\ IF IsSome(RequestError(Unwrap(request)))
               THEN Newest(result').error = RequestError(Unwrap(request))
               ELSE \E e \in TransportErrors : Newest(result').error = Some(e)
            /\ Newest(result').extracted_variables = <<>>
            /\ recorded' = Append(recorded, [iteration |-> iteration, step |-> stepIdx])
            /\ context' = context
            /\ sent' = sent]_vars
    /\ [](/\ \A j1, j2 \in 1..NumResults : recorded[j1] = recorded[j2] => j1 = j2
          /\ \A m1, m2 \in 1..Len(sent) :
                (sent[m1].iteration = sent[m2].iteration /\ sent[m1].step = sent[m2].step)
                   => m1 = m2)

\* The transport failed for the step with a post-response script, assertions
\* and extraction rules.
C5_Witness ==
    /\ BetweenSteps
    /\ NumResults > 0
    /\ RecordedStep(NumResults).name = "Check"
    /\ Newest(result).error \in {Some(e) : e \in TransportErrors}
    /\ sent[Len(sent)].step = recorded[NumResults].step
    /\ context.console_output = <<>>

\* C6: for a step with assertions whose transport call and post-response
\* script succeeded, the StepResult is a failure exactly when the report over
\* the enabled assertions is not successful, and then its error is the
\* summary of the report.  Data (status must be 200; a disabled assertion
\* that no response passes) fails exactly on another status; Check ($.n not
\* empty) fails exactly on the bodies without n.
C6_FailedIffReportFails ==
    [][(pc = "validate" /\ Len(CurrentStep.assertions) > 0) =>
          LET report == Validate(Unwrap(response), CurrentStep.assertions)
              sr == Newest(result')
          IN  /\ Len(result'.step_results) = NumResults + 1
              /\ (~sr.success) <=> (~report.success)
              /\ (~report.success) =>
                    sr.error = Some(Msg("Assertions failed: " \o ReportSummary(report), <<>>))
              /\ CurrentStep.name = "Data" =>
                    /\ (~sr.success) <=> (Unwrap(response).status # 200)
                    /\ (~sr.success) =>
                          sr.error = Some(Msg("Assertions failed: 1 of 1 assertions failed",
                                              <<>>))
              /\ CurrentStep.name = "Check" =>
                    (~sr.success) <=> (Unwrap(response).body # BodyToken)]_vars

\* Data failed by its enabled assertion.
C6_Witness ==
    /\ BetweenSteps
    /\ NumResults > 0
    /\ RecordedStep(NumResults).name = "Data"
    /\ Newest(result).error =
          Some(Msg("Assertions failed: 1 of 1 assertions failed", <<>>))

\* C7: a failed StepResult has no extracted variables, and the step that
\* records a failure writes no variable into the pool.
C7_FailedStepExtractsNothing ==
    /\ [](\A j \in 1..NumResults :
             ~StepResults[j].success => DOMAIN StepResults[j].extracted_variables = {})
    /\ [][(Len(result'.step_results) = NumResults + 1 /\ ~Newest(result').success)
             => context'.variables = context.variables]_vars

\* Check failed by its assertion on a JSON body that holds a value for T.
C7_Witness ==
    /\ BetweenSteps
    /\ NumResults = 2
    /\ RecordedStep(2).name = "Check"
    /\ Newest(result).error =
          Some(Msg("Assertions failed: 1 of 1 assertions failed", <<>>))
    /\ <<"b", "o", "d", "y">> \in DOMAIN context.response_data
    /\ context.response_data[<<"b", "o", "d", "y">>] = BodyNested
    /\ VarT \notin DOMAIN context.variables

\* C8: right after a succeeded step, every variable it extracts whose
\* extraction fails (the body is not JSON, or holds nothing at the path) is in
\* the pool, and in extracted_variables, as the empty string.
C8_FailedExtractionWritesEmpty ==
    (BetweenSteps /\ NumResults > 0 /\ Newest(result).success) =>
       \A name \in DOMAIN RecordedStep(NumResults).extract_variables :
          LET held == HeldValue(Unwrap(Newest(result).response).body,
                                RecordedStep(NumResults).extract_variables[name])
          IN  ~IsSome(held) =>
                 /\ name \in DOMAIN context.variables
                 /\ context.variables[name] = <<>>
                 /\ name \in DOMAIN Newest(result).extracted_variables
                 /\ Newest(result).extracted_variables[name] = <<>>

\* The results that extracted T, by index.
WritesOfT ==
    {j \in 1..NumResults :
        StepResults[j].success /\ VarT \in DOMAIN StepResults[j].extracted_variables}

\* The value of T of the newest result that extracted it.
LastWrittenT ==
    StepResults[CHOOSE j \in WritesOfT : \A k \in WritesOfT : k <= j].extracted_variables[VarT]

\* C9: the pool is empty when the run starts, nothing between the last step
\* of an iteration and the first step of the next changes the context, and a
\* value extracted in an earlier iteration is in the pool when the next
\* iteration starts and is what its first step substitutes.
C9_PoolPersistsAcrossIterations ==
    /\ []((pc = "iter" /\ iteration = 0) => context = NewContext)
    /\ [][(pc \in {"maxdur", "iter"}) => (context' = context)]_vars
    /\ []((iteration > 0 /\ stepIdx = 1 /\ WritesOfT # {}) =>
            /\ pc = "step" =>
                  /\ VarT \in DOMAIN context.variables
                  /\ context.variables[VarT] = LastWrittenT
            /\ (pc = "send" /\ CurrentStep.name = "Data") =>
                  Unwrap(request).url = <<"/">> \o LastWrittenT)

\* The first step of the second iteration sends the T of the first iteration.
C9_Witness ==
    /\ pc = "send"
    /\ iteration = 1
    /\ stepIdx = 1
    /\ CurrentStep.name = "Data"
    /\ WritesOfT # {}
    /\ Unwrap(request).url = <<"/", "a", "b">>

RECURSIVE SumDurations(_, _)
\* The sum of the durations of the first n StepResults.
SumDurations(results, n) ==
    IF n = 0 THEN 0 ELSE SumDurations(results, n - 1) + results[n].duration

\* The max duration is set and the first n StepResults reach it.
ReachedAfter(n) ==
    /\ IsSome(Config.max_duration)
    /\ SumDurations(StepResults, n) >= Unwrap(Config.max_duration)

\* The j-th StepResult is the last one of its iteration.
EndsIteration(j) ==
    IF j < NumResults THEN recorded[j + 1].iteration > recorded[j].iteration
    ELSE pc \in {"maxdur", "iter", "final", "done"}

\* C10: total_duration is the sum of the durations of the recorded
\* StepResults (the delays are not in it); an iteration starts only if the
\* max duration is unset or not reached by the results recorded before it;
\* the run ends before the last iteration only when the max duration is
\* reached; and every iteration runs to the end of the step loop or to a
\* stop-on-failure break, whatever the duration.
C10_MaxDurationCheckedAfterStepLoop ==
    /\ result.total_duration = SumDurations(StepResults, NumResults)
    /\ \A j \in 1..NumResults :
          (j > 1 /\ recorded[j].iteration > recorded[IF j > 1 THEN j - 1 ELSE 1].iteration)
             => ~ReachedAfter(j - 1)
    /\ (iteration > 0 /\ pc \in {"step", "send", "post", "validate"}) =>
          \A j \in 1..NumResults : recorded[j].iteration < iteration => ~ReachedAfter(j)
    /\ (pc = "done" /\ Len(Steps) > 0 /\ Config.iterations > 0) =>
          \/ NumResults > 0 /\ recorded[NumResults].iteration = Config.iterations - 1
          \/ ReachedAfter(NumResults)
    /\ \A j \in 1..NumResults :
          EndsIteration(j) => (recorded[j].step = Len(Steps) \/ StopsIteration(j))

\* The max duration was reached by the first step; the second step ran, and
\* no second iteration.
C10_Witness ==
    /\ pc = "done"
    /\ Config.iterations = 2
    /\ Config.max_duration = Some(1)
    /\ NumResults = 2
    /\ StepResults[1].duration = 1
    /\ recorded[2] = [iteration |-> 0, step |-> 2]

\* The step loop of iteration i was left after the j-th StepResult and the
\* run stands at the head of the first step of iteration i + 1, or before it.
StartsNextIteration(j) ==
    LET i == recorded[j].iteration
    IN  IF j < NumResults
        THEN recorded[j + 1] = [iteration |-> i + 1, step |-> 1]
        ELSE \/ pc = "maxdur" /\ iteration = i
             \/ pc = "iter" /\ iteration = i + 1
             \/ pc \in {"step", "send", "post", "validate"}
                   /\ iteration = i + 1 /\ stepIdx = 1

C12_StopAbortsTheChain ==
    \A j \in 1..NumResults :
       StopsIteration(j) =>
          /\ j = NumResults
          /\ pc \notin {"step", "send", "post", "validate"}

\* The step of the run abandons the current step: execute_step returned
\* without a response to go on with.
StepAbandoned ==
    /\ pc \in {"step", "send", "post", "validate"}
    /\ pc' \notin {"send", "post", "validate"}

\* The error texts of the failures recorded so far.
RecordedErrors ==
    {Unwrap(StepResults[j].error).text : j \in {k \in 1..NumResults : ~StepResults[k].success}}

\* How far the run has come: iterations first, then the steps of the
\* iteration, then the phases of the step.
Progress ==
    LET perIteration == 10 * (Len(Steps) + 2)
    IN  CASE pc = "iter" -> iteration * perIteration
          [] pc = "step" -> iteration * perIteration + 10 * stepIdx + 1
          [] pc = "send" -> iteration * perIteration + 10 * stepIdx + 2
          [] pc = "post" -> iteration * perIteration + 10 * stepIdx + 3
          [] pc = "validate" -> iteration * perIteration + 10 * stepIdx + 4
          [] pc = "maxdur" -> iteration * perIteration + 10 * (Len(Steps) + 1)
          [] pc = "final" -> (Config.iterations + 1) * perIteration
          [] pc = "done" -> (Config.iterations + 1) * perIteration + 1
          [] OTHER -> 0 - 1

\* C13: execute returns Ok(result) for every chain.  Whatever ends a step
\* (a script error, a malformed header or query parameter, a transport error,
\* failed assertions, or success) records one StepResult and the run goes on
\* to the next step or to the end of the iteration; the run is never at a
\* position other than those of execute; as long as the result is not
\* returned the run can go on, and every step of it is progress, so that it
\* ends; and it ends with the result returned, which is a success exactly
\* when no failure was recorded.
C13_ExecuteAlwaysReturnsResult ==
    /\ [][StepAbandoned =>
             /\ Len(result'.step_results) = NumResults + 1
             /\ pc' \in {"step", "maxdur"}]_vars
    /\ [](pc \in {"iter", "step", "send", "post", "validate", "maxdur", "final", "done"})
    /\ [](pc # "done" => ENABLED Next)
    /\ [][Progress' > Progress]_vars
    /\ [](pc = "done" =>
            /\ result.chain_name = chain.name
            /\ result.final_variables = context.variables
            /\ (result.success <=> RecordedErrors = {}))

\* A run returned a result holding a script error, a header error and a
\* transport error.
C13_Witness ==
    /\ pc = "done"
    /\ NumResults = 4
    /\ ScriptError \in RecordedErrors
    /\ "Invalid header: Invalid header name: " \in RecordedErrors
    /\ "HTTP request failed: connection refused" \in RecordedErrors

\* C14: when the pre-request script of the current step fails, the step that
\* follows records exactly one StepResult for it, a failure without response
\* whose error is the script error; the transport is not called and the
\* context is left as it was; and the run goes to the next declared step, or
\* to the end of the iteration when there is none or when stop_on_failure is
\* set and the step does not continue on error.
C14_PreScriptFailureRecorded ==
    [][(pc = "step" /\ ~PreRequest(CurrentStep, context).ok) =>
          /\ Len(result'.step_results) = NumResults + 1
          /\ Newest(result') =
                StepFailure(CurrentStep.name, Msg(ScriptError, <<>>), Newest(result').duration)
          /\ recorded' = Append(recorded, [iteration |-> iteration, step |-> stepIdx])
          /\ sent' = sent
          /\ context' = context
          /\ IF (Config.stop_on_failure /\ ~CurrentStep.continue_on_error)
                \/ stepIdx = Len(Steps)
             THEN pc' = "maxdur"
             ELSE pc' = "step" /\ stepIdx' = stepIdx + 1 /\ iteration' = iteration]_vars

\* Under stop_on_failure the pre-request script of the first step failed
\* and ended the iteration; in the next iteration it failed again: nothing
\* was sent.
C14_StopWitness ==
    /\ pc = "maxdur"
    /\ iteration = 1
    /\ Len(Steps) = 2
    /\ Config.stop_on_failure
    /\ NumResults = 2
    /\ \A j \in 1..2 : StepResults[j].error = Some(Msg(ScriptError, <<>>))
    /\ recorded[2] = [iteration |-> 1, step |-> 1]
    /\ sent = <<>>

\* Under stop_on_failure the pre-request script of the first step failed,
\* nothing was sent, and the second step is about to run.
C14_Witness ==
    /\ pc = "step"
    /\ iteration = 0
    /\ stepIdx = 2
    /\ Config.stop_on_failure
    /\ NumResults = 1
    /\ StepResults[1].error = Some(Msg(ScriptError, <<>>))
    /\ sent = <<>>

\* C15: every request handed to the transport for a step that declares a
\* timeout carries that timeout.
C15_TimeoutPassedToTransport ==
    \A m \in 1..Len(sent) :
       IsSome(Steps[sent[m].step].timeout) =>
          /\ "timeout" \in DOMAIN sent[m].request
          /\ sent[m].request["timeout"] = Steps[sent[m].step].timeout

(***************************************************************************)
(* Properties of the validator.                                            *)
(***************************************************************************)
\* The number of results of a report that passed, or that failed.
CountResults(report, passed) ==
    Cardinality({i \in 1..Len(report.results) : report.results[i].passed = passed})

\* C16: after any sequence of add_result calls on a new report, total is
\* the number of results stored, passed and failed count the results that
\* passed and that failed, total = passed + failed, and success holds exactly
\* when failed = 0.
C16_ReportCountsAgree ==
    call.op = "add_result" =>
       LET report == call.report
       IN  /\ report.total = Len(report.results)
           /\ report.total = report.passed + report.failed
           /\ report.passed = CountResults(report, TRUE)
           /\ report.failed = CountResults(report, FALSE)
           /\ report.success <=> (report.failed = 0)

\* A failed result followed by passed ones: the report stays failed.
C16_Witness ==
    /\ call.op = "add_result"
    /\ call.report.total = 3
    /\ ~call.report.results[1].passed
    /\ call.report.results[2].passed
    /\ call.report.results[3].passed
    /\ call.report.failed = 1
    /\ ~call.report.success

\* The enabled assertions of a list, in the order of the list.
EnabledOnly(assertions) == SelectSeq(assertions, LAMBDA a : a.enabled)

\* C17: the report of validate holds one result per enabled assertion, in
\* the order of the list, each the result of that assertion on the response;
\* total, passed, failed and success are those of the enabled assertions
\* alone; and it is the report of the list without its disabled assertions.
C17_OneResultPerEnabledAssertion ==
    (call.op = "validate" /\ IsSome(call.report)) =>
       LET report == Unwrap(call.report)
           enabled == EnabledOnly(call.assertions)
       IN  /\ Len(report.results) = Len(enabled)
           /\ \A i \in 1..Len(enabled) :
                 /\ report.results[i].assertion = enabled[i]
                 /\ report.results[i] = ValidateAssertion(call.response, enabled[i])
           /\ report.total = Len(enabled)
           /\ report.passed = CountResults(report, TRUE)
           /\ report.failed = CountResults(report, FALSE)
           /\ report.success <=> (\A i \in 1..Len(report.results) : report.results[i].passed)
           /\ report = Validate(call.response, enabled)

\* A disabled assertion that would fail, before an enabled one that passes:
\* one result, and the report is a success.
C17_Witness ==
    /\ call.op = "validate"
    /\ IsSome(call.report)
    /\ Len(call.assertions) = 2
    /\ ~call.assertions[1].enabled
    /\ ~ValidateAssertion(call.response, call.assertions[1]).passed
    /\ call.assertions[2].enabled
    /\ Unwrap(call.report).total = 1
    /\ Unwrap(call.report).success

\* C18: on a response whose body is not JSON, the result of every JsonPath
\* assertion is a failure whose error is the parse failure and whose actual
\* value is the body, whatever the matcher.
C18_JsonPathFailsOnBadBody ==
    (call.op = "validate" /\ IsSome(call.report) /\ ~IsSome(ParseJson(call.response.body))) =>
       \A i \in 1..Len(Unwrap(call.report).results) :
          LET res == Unwrap(call.report).results[i]
          IN  res.assertion.assertion_type.kind = "JsonPath" =>
                 /\ ~res.passed
                 /\ res.error = Some(Msg("Failed to parse response as JSON", <<>>))
                 /\ res.actual = call.response.body

\* On a body that is not JSON, a JsonPath assertion whose matcher accepts the
\* empty text (IsEmpty) and one that rejects the text ab (NotEquals) failed.
C18_Witness ==
    /\ call.op = "validate"
    /\ IsSome(call.report)
    /\ call.response.body = BodyText
    /\ Len(call.assertions) = 2
    /\ call.assertions[1] = Assertion("JsonPath", PathT, Matcher("IsEmpty", <<>>), TRUE)
    /\ call.assertions[2] =
          Assertion("JsonPath", PathT, Matcher("NotEquals", <<"a", "b">>), TRUE)
    /\ Unwrap(call.report).failed = 2

(***************************************************************************)
(* Properties of the substitutor.                                          *)
(***************************************************************************)
\* The indices at which a token starts.
TokenStarts(text) == {i \in 1..Len(text) : MatchEnd(text, i) # 0}

\* The name of the token that starts at i.
TokenName(text, i) == MatchName(text, i, MatchEnd(text, i))

\* Index j lies in a token that starts before j.
InsideToken(text, j) ==
    \E i \in TokenStarts(text) : i < j /\ j <= MatchEnd(text, i)

\* What stands in the result for index i of the text: the value for a
\* token that resolves, the token itself for one that does not (at its first
\* index, nothing at its other indices), the character otherwise.
ImageAt(text, i, variables) ==
    IF i \in TokenStarts(text)
    THEN IF TokenName(text, i) \in DOMAIN variables
         THEN variables[TokenName(text, i)]
         ELSE SubSeq(text, i, MatchEnd(text, i))
    ELSE IF InsideToken(text, i) THEN <<>> ELSE <<text[i]>>

\* C19: the result of substitute is the text with every token whose name is
\* a key of the variables replaced by its value (once: a token in a value is
\* not replaced again) and everything else as it was, tokens of absent names
\* included; a text without tokens, or none of whose tokens resolves, is
\* returned as it is; the token of A with A = x, a slash and the token of B
\* give x, the slash and the token of B.
C19_SubstituteReplacesKnownTokens ==
    (call.op = "substitutor" /\ IsSome(call.substituted)) =>
       LET text == call.text
           variables == call.variables
           out == Unwrap(call.substituted)
       IN  /\ out = Flatten([i \in 1..Len(text) |-> ImageAt(text, i, variables)])
           /\ TokenStarts(text) = {} => out = text
           /\ (\A i \in TokenStarts(text) : TokenName(text, i) \notin DOMAIN variables)
                 => out = text
           /\ (text = Tok(<<"A">>) \o <<"/">> \o Tok(<<"B">>)
                  /\ variables = <<"A">> :> <<"x">>)
                 => out = <<"x", "/">> \o Tok(<<"B">>)

\* The token of A was replaced by x and the token of B was left.
C19_Witness ==
    /\ call.op = "substitutor"
    /\ call.text = Tok(<<"A">>) \o <<"/">> \o Tok(<<"B">>)
    /\ call.variables = <<"A">> :> <<"x">>
    /\ call.substituted = Some(<<"x", "/">> \o Tok(<<"B">>))

\* C20: validate reports the names of find_variables that are not keys of
\* the variables, in order of appearance; it returns Ok exactly when every
\* token of the text resolves; the token of A with A = x, a slash and the
\* token of B give the one name B; a second call returns what the first did;
\* and no call changes the text or the variables.
C20_ValidateReportsUnresolvedNames ==
    /\ [](call.op = "substitutor" =>
            \A k \in 1..Len(call.validated) :
               LET res == call.validated[k]
                   names == FindVariables(call.text)
               IN  /\ res.missing =
                         SelectSeq(names, LAMBDA n : n \notin DOMAIN call.variables)
                   /\ res.ok <=> res.missing = <<>>
                   /\ res.ok <=> (\A i \in TokenStarts(call.text) :
                                     TokenName(call.text, i) \in DOMAIN call.variables)
                   /\ (call.text = Tok(<<"A">>) \o <<"/">> \o Tok(<<"B">>)
                          /\ call.variables = <<"A">> :> <<"x">>)
                         => res = [ok |-> FALSE, missing |-> << <<"B">> >>]
                   /\ res = call.validated[1])
    /\ [][call.op = "substitutor" =>
             (call'.text = call.text /\ call'.variables = call.variables)]_vars

\* Two tokens that do not resolve around one that does, validated twice.
C20_Witness ==
    /\ call.op = "substitutor"
    /\ call.text = Tok(<<"A">>) \o Tok(<<"B">>) \o Tok(<<"A">>)
    /\ call.variables = (<<"B">> :> <<>>) @@ (<<"_", "a", "1">> :> <<"/">>)
    /\ Len(call.validated) = 2
    /\ call.validated[2] = [ok |-> FALSE, missing |-> << <<"A">>, <<"A">> >>]

(***************************************************************************)
(* Further properties of the chain execution.                              *)
(***************************************************************************)
\* C21: when the pool holds for T a value that is itself the token of P, as
\* extracted from a response, the request of Data has that token wherever
\* its templates name T, unexpanded, although P is in the pool and is itself
\* replaced where the templates name it.
C21_SubstitutionIsSinglePass ==
    ( /\ pc = "send"
      /\ CurrentStep.name = "Data"
      /\ VarT \in DOMAIN context.variables
      /\ VarP \in DOMAIN context.variables
      /\ context.variables[VarT] = Tok(VarP) )
    => /\ Unwrap(request).url = <<"/">> \o Tok(VarP)
       /\ Unwrap(request).headers = << <<"a", ":">> \o Tok(VarP) >>
       /\ Unwrap(request).query_params = << <<"q">> \o context.variables[VarP] >>
       /\ Unwrap(request).body = Some(Tok(VarP) \o Tok(VarZ))
       /\ sent[Len(sent)].request = Unwrap(request)

\* Login extracted the token of P as the value of T, the pre-request script
\* of Data set P, and the request of Data carries the token.
C21_Witness ==
    /\ pc = "send"
    /\ stepIdx = 2
    /\ CurrentStep.name = "Data"
    /\ NumResults = 1
    /\ VarT \in DOMAIN Newest(result).extracted_variables
    /\ Newest(result).extracted_variables[VarT] = Tok(VarP)
    /\ VarP \in DOMAIN context.variables
    /\ context.variables[VarP] = <<"=", "p">>
    /\ Unwrap(request).url = <<"/">> \o Tok(VarP)

\* ---------------------------------------------------------------------------
\* The two JSON path extractors on their own.

\* {"user":{"name":"Alice","id":42,"ok":true,"none":null,"tags":["a","b"]},"n":-7}
DocUser ==
    JObj((<<"u", "s", "e", "r">> :>
            JObj((<<"n", "a", "m", "e">> :> JStr(<<"A", "l", "i", "c", "e">>))
                 @@ (<<"i", "d">> :> JNum(42))
                 @@ (<<"o", "k">> :> JBool(TRUE))
                 @@ (<<"n", "o", "n", "e">> :> JNull)
                 @@ (<<"t", "a", "g", "s">> :> JArr(<<JStr(<<"a">>), JStr(<<"b">>)>>))))
         @@ (<<"n">> :> JNum(0 - 7)))

\* ["x"]
DocArray == JArr(<<JStr(<<"x">>)>>)

\* {"":"e","0":"z","$":{"x":"d"}}
DocKeys ==
    JObj((<<>> :> JStr(<<"e">>))
         @@ (<<"0">> :> JStr(<<"z">>))
         @@ (<<"$">> :> JObj(<<"x">> :> JStr(<<"d">>))))

JsonDocs == {DocUser, DocArray, DocKeys}

JsonPaths ==
    {<<"$", ".", "u", "s", "e", "r", ".", "n", "a", "m", "e">>,
     <<"u", "s", "e", "r", ".", "n", "a", "m", "e">>,
     <<"$", ".", "u", "s", "e", "r", ".", "i", "d">>,
     <<"$", ".", "u", "s", "e", "r", ".", "o", "k">>,
     <<"$", ".", "u", "s", "e", "r", ".", "n", "o", "n", "e">>,
     <<"$", ".", "u", "s", "e", "r", ".", "m", "i", "s", "s", "i", "n", "g">>,
     <<"$", ".", "u", "s", "e", "r", ".", "t", "a", "g", "s">>,
     <<"$", ".", "u", "s", "e", "r", ".", "t", "a", "g", "s", ".", "0">>,
     <<"$", ".", "u", "s", "e", "r", ".", "n", "a", "m", "e", ".", "x">>,
     <<"$", ".", "n">>,
     <<"$", ".", "u", "s", "e", "r">>,
     <<"$", ".", "$", ".", "n">>,
     <<"$", ".">>,
     <<>>,
     <<"$">>,
     <<"u", "s", "e", "r", ".", ".", "n", "a", "m", "e">>,
     <<"$", ".", "0">>}

\* The document and the path of the calls.
ExtractInit ==
    /\ NoRun
    /\ \E json \in JsonDocs, path \in JsonPaths :
          call = [op |-> "extract", json |-> json, path |-> path,
                  value |-> None, found |-> None]

\* executor.extract_json_value(json, path)
ExtractJsonValueCall ==
    /\ call.op = "extract"
    /\ call.value = None
    /\ call' = [call EXCEPT !.value = Some(ExtractJsonValue(call.json, call.path))]
    /\ UNCHANGED executor

\* validator.extract_json_path(json, path)
ExtractJsonPathCall ==
    /\ call.op = "extract"
    /\ call.found = None
    /\ call' = [call EXCEPT !.found = Some(ExtractJsonPath(call.json, call.path))]
    /\ UNCHANGED executor

ExtractNext == ExtractJsonValueCall \/ ExtractJsonPathCall

ExtractSpec == ExtractInit /\ [][ExtractNext]_vars

\* ---------------------------------------------------------------------------
\* Reading a persisted chain (the derived Deserialize of ChainConfig and
\* RequestChain), from a JSON document.

KeyName == <<"n", "a", "m", "e">>
KeySteps == <<"s", "t", "e", "p", "s">>
KeyConfig == <<"c", "o", "n", "f", "i", "g">>
KeyStopOnFailure == <<"s", "t", "o", "p", "_", "o", "n", "_", "f", "a", "i", "l", "u", "r", "e">>
KeyDelayBetweenRequests == <<"d", "e", "l", "a", "y", "_", "b", "e", "t", "w", "e", "e", "n", "_", "r", "e", "q", "u", "e", "s", "t", "s">>
KeyMaxDuration == <<"m", "a", "x", "_", "d", "u", "r", "a", "t", "i", "o", "n">>
KeyIterations == <<"i", "t", "e", "r", "a", "t", "i", "o", "n", "s">>
KeyComment == <<"c", "o", "m", "m", "e", "n", "t">>

\* A field of an object as the derived Deserialize sees it: Some(value), or
\* None when the key is absent.
FieldOf(json, key) == IF key \in DOMAIN json.v THEN Some(json.v[key]) ELSE None

\* A field of type Option<Duration>: an absent field and null are None, a
\* duration (here a number of units of time) is Some.
DeserializeOptionDuration(field) ==
    IF ~IsSome(field) \/ Unwrap(field).t = "null" THEN None
    ELSE Some(Unwrap(field).v)

\* ChainConfig::deserialize: Some(config), or None for an error.  Fields of
\* type bool and usize have to be there; keys that name no field are skipped.
DeserializeChainConfig(json) ==
    LET stop == FieldOf(json, KeyStopOnFailure)
        iterations == FieldOf(json, KeyIterations)
    IN  IF json.t # "obj" THEN None
        ELSE IF ~IsSome(stop) \/ ~IsSome(iterations) THEN None
        ELSE IF Unwrap(stop).t # "bool" \/ Unwrap(iterations).t # "num" THEN None
        ELSE Some([stop_on_failure |-> Unwrap(stop).v,
                   delay_between_requests |->
                       DeserializeOptionDuration(FieldOf(json, KeyDelayBetweenRequests)),
                   max_duration |->
                       DeserializeOptionDuration(FieldOf(json, KeyMaxDuration)),
                   iterations |-> Unwrap(iterations).v])

\* RequestChain::deserialize: Some(chain), or None for an error.  The
\* documents of the model hold no steps.
DeserializeRequestChain(json) ==
    LET name == FieldOf(json, KeyName)
        steps == FieldOf(json, KeySteps)
        config == FieldOf(json, KeyConfig)
    IN  IF json.t # "obj" THEN None
        ELSE IF ~IsSome(name) \/ ~IsSome(steps) \/ ~IsSome(config) THEN None
        ELSE IF Unwrap(name).t # "str" \/ Unwrap(steps) # JArr(<<>>) THEN None
        ELSE IF ~IsSome(DeserializeChainConfig(Unwrap(config))) THEN None
        ELSE Some([name |-> Unwrap(name).v, steps |-> <<>>,
                   config |-> Unwrap(DeserializeChainConfig(Unwrap(config)))])

\* A field that is there with one of the values, or absent.
OptionalField(key, values) == {<<>>} \cup {key :> v : v \in values}

\* The persisted configurations: every field there or absent, with or
\* without a key that names no field.
ConfigDocs ==
    {JObj(stop @@ delay @@ max @@ iterations @@ comment) :
        stop \in OptionalField(KeyStopOnFailure, {JBool(TRUE), JBool(FALSE)}),
        delay \in OptionalField(KeyDelayBetweenRequests, {JNull, JNum(1)}),
        max \in OptionalField(KeyMaxDuration, {JNum(1)}),
        iterations \in OptionalField(KeyIterations, {JNum(1), JNum(2)}),
        comment \in OptionalField(KeyComment, {JStr(<<"x">>)})}

\* The persisted chains: with one of the configurations or with none.
ChainDocs ==
    {JObj((KeyName :> JStr(<<"c">>)) @@ (KeySteps :> JArr(<<>>)) @@ config) :
        config \in OptionalField(KeyConfig, ConfigDocs)}

\* The document of the call.
ReadInit ==
    /\ NoRun
    /\ \E json \in ChainDocs : call = [op |-> "read", json |-> json, result |-> None]

\* serde_json::from_value::<RequestChain>(json)
ReadCall ==
    /\ call.op = "read"
    /\ call.result = None
    /\ call' = [call EXCEPT !.result = Some(DeserializeRequestChain(call.json))]
    /\ UNCHANGED executor

ReadNext == ReadCall

ReadSpec == ReadInit /\ [][ReadNext]_vars

\* ---------------------------------------------------------------------------
\* Properties of the matcher

\* The integer a text of NumberTexts denotes, when it denotes an i64; the two
\* ends of the range are stood for by numbers beyond all the others, which
\* keeps their order.
IntegerMeaning(text) ==
    CASE text = <<"0">> -> Some(0)
      [] text = <<"5">> -> Some(5)
      [] text = <<"1", "0">> -> Some(10)
      [] text = <<"-", "3">> -> Some(0 - 3)
      [] text = <<"+", "7">> -> Some(7)
      [] text = <<"0", "0", "7">> -> Some(7)
      [] text = <<"-", "0">> -> Some(0)
      [] text = <<"1", "0", "0", "0">> -> Some(1000)
      [] text = <<"9", "2", "2", "3", "3", "7", "2", "0", "3", "6", "8", "5", "4", "7", "7", "5", "8", "0", "7">> -> Some(2000000000)
      [] text = <<"-", "9", "2", "2", "3", "3", "7", "2", "0", "3", "6", "8", "5", "4", "7", "7", "5", "8", "0", "8">> -> Some(0 - 2000000000)
      [] OTHER -> None

\* The comparison a numeric matcher makes.
Compares(matcher_type, a, e) ==
    CASE matcher_type = "LessThan" -> a < e
      [] matcher_type = "LessThanOrEqual" -> a <= e
      [] matcher_type = "GreaterThan" -> a > e
      [] matcher_type = "GreaterThanOrEqual" -> a >= e

\* C22: a numeric matcher (LessThan, LessThanOrEqual, GreaterThan,
\* GreaterThanOrEqual) compares the two texts as integers when both parse as
\* 64-bit signed integers, and does not match when either does not parse
\* (not a number, empty, out of the 64-bit range): it never fails, and then
\* LessThan and GreaterThanOrEqual are both false.
C22_NumericMatchersCompareIntegers ==
    ( /\ call.op = "matches" /\ IsSome(call.result)
      /\ call.matcher.matcher_type \in NumericTypes )
    => LET a == IntegerMeaning(call.actual)
           e == IntegerMeaning(call.matcher.expected)
       IN  /\ Unwrap(call.result) \in BOOLEAN
           /\ Unwrap(call.result) =
                 ( /\ IsSome(a) /\ IsSome(e)
                   /\ Compares(call.matcher.matcher_type, Unwrap(a), Unwrap(e)) )
           /\ (~IsSome(a) \/ ~IsSome(e)) =>
                 /\ ~Matches(Matcher("LessThan", call.matcher.expected), call.actual)
                 /\ ~Matches(Matcher("GreaterThanOrEqual", call.matcher.expected), call.actual)

\* A number just beyond the 64-bit range has been compared with a number.
C22_Witness ==
    /\ call.op = "matches" /\ IsSome(call.result)
    /\ call.matcher.matcher_type = "GreaterThanOrEqual"
    /\ call.actual = <<"9", "2", "2", "3", "3", "7", "2", "0", "3", "6", "8", "5", "4", "7", "7", "5", "8", "0", "8">>
    /\ call.matcher.expected = <<"5">>
    /\ Unwrap(call.result) = FALSE

\* C23: HasLength matches exactly when the expected text parses as an
\* unsigned integer equal to the number of characters of the actual text,
\* characters outside ASCII counting once each.
C23_HasLengthCountsCharacters ==
    ( /\ call.op = "matches" /\ IsSome(call.result)
      /\ call.matcher.matcher_type = "HasLength" )
    => Unwrap(call.result) =
         ( \E n \in 0..11 :
              /\ n = Len(call.actual)
              /\ call.matcher.expected \in
                    {NatToText(n), <<"+">> \o NatToText(n), <<"0">> \o NatToText(n)} )

\* ---------------------------------------------------------------------------
\* Properties of the JSON path extractors

\* The scalar leaves of the documents: document, path without "$.", text.
ScalarLeaves ==
    {<<DocUser, <<"u", "s", "e", "r", ".", "n", "a", "m", "e">>, <<"A", "l", "i", "c", "e">>>>,
     <<DocUser, <<"u", "s", "e", "r", ".", "i", "d">>, <<"4", "2">>>>,
     <<DocUser, <<"u", "s", "e", "r", ".", "o", "k">>, <<"t", "r", "u", "e">>>>,
     <<DocUser, <<"u", "s", "e", "r", ".", "n", "o", "n", "e">>, <<"n", "u", "l", "l">>>>,
     <<DocUser, <<"n">>, <<"-", "7">>>>,
     <<DocKeys, <<>>, <<"e">>>>,
     <<DocKeys, <<"0">>, <<"z">>>>}

\* The paths that end on an object or an array: document, path without "$.".
CompositeLeaves ==
    {<<DocUser, <<"u", "s", "e", "r">>>>, <<DocUser, <<"u", "s", "e", "r", ".", "t", "a", "g", "s">>>>, <<DocKeys, <<"$">>>>}

RECURSIVE WithoutRoot(_)
\* A path without the "$." it starts with, however often it is repeated.
WithoutRoot(path) ==
    IF Len(path) >= 2 /\ path[1] = "$" /\ path[2] = "."
    THEN WithoutRoot(SubSeq(path, 3, Len(path)))
    ELSE path

\* The text the extractors are to return for a path that does not end on an
\* object or an array.
LeafText(json, path) ==
    IF \E leaf \in ScalarLeaves : leaf[1] = json /\ leaf[2] = WithoutRoot(path)
    THEN (CHOOSE leaf \in ScalarLeaves : leaf[1] = json /\ leaf[2] = WithoutRoot(path))[3]
    ELSE <<>>

C25_NonStringValuesCoerced ==
    (pc = "send" /\ CurrentStep.name = "Data")
    => /\ VarN \in DOMAIN context.variables
       /\ context.variables[VarN] = <<"5">>

\* The value of a field of a persisted configuration, or the default when the
\* configuration or the field is absent.
FieldOrDefault(json, key, default) ==
    IF KeyConfig \in DOMAIN json.v /\ key \in DOMAIN json.v[KeyConfig].v
    THEN json.v[KeyConfig].v[key].v
    ELSE default

\* C26: reading a persisted chain in which config, or any of the fields
\* stop_on_failure, iterations, the delay or the max duration, is absent
\* succeeds and yields the defaults (stop_on_failure true, iterations 1, no
\* delay, no max duration); fields that are not known are ignored.
C26_AbsentFieldsReadAsDefaults ==
    (call.op = "read" /\ IsSome(call.result))
    => /\ IsSome(Unwrap(call.result))
       /\ LET config == Unwrap(Unwrap(call.result)).config
          IN  /\ config.stop_on_failure = FieldOrDefault(call.json, KeyStopOnFailure, TRUE)
              /\ config.iterations = FieldOrDefault(call.json, KeyIterations, 1)
              /\ KeyDelayBetweenRequests \notin DOMAIN call.json.v[KeyConfig].v
                    => config.delay_between_requests = None
              /\ KeyMaxDuration \notin DOMAIN call.json.v[KeyConfig].v
                    => config.max_duration = None

\* The phase of execute_step the run is in: 1 before the pre-request script,
\* 2 with the request built and handed to the transport, 3 with the response
\* facts stored, 4 with the post-response script done; 0 outside a step.
Phase ==
    CASE pc = "step" -> 1
      [] pc = "send" -> 2
      [] pc = "post" -> 3
      [] pc = "validate" -> 4
      [] OTHER -> 0

\* How often a text is in the console output.
Logged(text) ==
    Cardinality({i \in 1..Len(context.console_output) : context.console_output[i] = text})

\* How often the request of a step of the given name was built.
Built(name) ==
    Cardinality({i \in 1..Len(sent) : Steps[sent[i].step].name = name})

\* C27: within one step the phases run in a fixed order, each at most once:
\* pre-request script, substitution against the pool as the script left it,
\* transport, recording of the response facts, post-response script,
\* validation, extraction, recording of the StepResult.  A variable set by
\* the pre-request script is visible to the templates of the same step, and
\* what the post-response script did to the pool stays when validation then
\* fails the step.
C27_PhasesRunInOrder ==
    /\ [][Phase > 0 =>
            \/ /\ Phase' = Phase + 1
               /\ NumResults' = NumResults
               /\ stepIdx' = stepIdx /\ iteration' = iteration
            \/ /\ NumResults' = NumResults + 1
               /\ Phase' \in {0, 1}
               /\ Phase' = 1 => stepIdx' = stepIdx + 1]_vars
    /\ []((pc = "send" /\ CurrentStep.name = "Data") =>
            /\ VarP \in DOMAIN context.variables
            /\ context.variables[VarP] = <<"=", "p">>
            /\ Unwrap(request).query_params = << <<"q", "=", "p">> >>)
    /\ [](Logged(<<"m">>) = Built("Data"))
    /\ []((pc = "post" /\ CurrentStep.name = "Check") =>
            /\ context.response_data[<<"s", "t", "a", "t", "u", "s">>]
                  = IntToText(Unwrap(response).status)
            /\ (iteration = 0 /\ stepIdx = 1) => VarS \notin DOMAIN context.variables)
    /\ []((pc = "validate" /\ CurrentStep.name = "Check") =>
            /\ VarS \in DOMAIN context.variables
            /\ context.variables[VarS] = IntToText(Unwrap(response).status))
    /\ [][(pc = "validate" /\ NumResults' = NumResults + 1 /\ ~Newest(result').success)
            => context' = context]_vars
    /\ [][(pc = "validate" /\ NumResults' = NumResults + 1 /\ Newest(result').success) =>
            LET extracted == Newest(result').extracted_variables
            IN  /\ \A n \in DOMAIN extracted :
                      n \in DOMAIN context'.variables /\ context'.variables[n] = extracted[n]
                /\ \A n \in (DOMAIN context.variables) \ (DOMAIN extracted) :
                      n \in DOMAIN context'.variables
                      /\ context'.variables[n] = context.variables[n]]_vars

\* In the first iteration Check, run after Data, was failed by its assertion:
\* S and V, set by its post-response script, are in the pool.
C27_Witness ==
    /\ pc = "maxdur"
    /\ iteration = 0
    /\ NumResults = 2
    /\ RecordedStep(1).name = "Data"
    /\ RecordedStep(2).name = "Check"
    /\ ~Newest(result).success
    /\ VarS \in DOMAIN context.variables
    /\ context.variables[VarS] = <<"5", "0", "0">>
    /\ VarV \in DOMAIN context.variables
    /\ context.variables[VarV] = <<"=", "p">>

KeyStatus == <<"s", "t", "a", "t", "u", "s">>
KeyBody == <<"b", "o", "d", "y">>

\* The response data hold the status and the body of the response, and
\* nothing else.
HoldsFactsOf(ctx, resp) ==
    /\ DOMAIN ctx.response_data = {KeyStatus, KeyBody}
    /\ ctx.response_data[KeyStatus] = IntToText(resp.status)
    /\ ctx.response_data[KeyBody] = resp.body

\* C28: the entries status and body of the response data are those of the
\* most recent step whose transport call succeeded, and are absent before
\* the first such step.  They are written when the response arrives, before
\* the post-response script runs; a step whose pre-request script or
\* transport fails leaves them as they are; writing them changes no variable
\* of the pool.
C28_ResponseFactsOfLatestResponse ==
    /\ [](sent = <<>> => context.response_data = <<>>)
    /\ [][context'.response_data # context.response_data =>
            /\ pc = "send" /\ pc' = "post"
            /\ HoldsFactsOf(context', Unwrap(response'))]_vars
    /\ [][(pc = "send" /\ pc' = "post") =>
            /\ HoldsFactsOf(context', Unwrap(response'))
            /\ context'.variables = context.variables
            /\ context'.request_data = context.request_data
            /\ context'.console_output = context.console_output
            /\ ~IsSome(RequestError(Unwrap(request)))]_vars
    /\ []((pc \in {"post", "validate"}) => HoldsFactsOf(context, Unwrap(response)))
    /\ []((NumResults > 0 /\ Newest(result).success /\ pc \in {"step", "maxdur", "iter", "final", "done"})
            => HoldsFactsOf(context, Unwrap(Newest(result).response)))
    /\ [][(pc \in {"step", "send"} /\ NumResults' = NumResults + 1) =>
            context'.response_data = context.response_data]_vars

\* The first step got a response, the second failed in the transport: the
\* response data are those of the first.
C28_Witness ==
    /\ NumResults = 2
    /\ StepResults[1].success
    /\ Unwrap(StepResults[1].response).body = BodyToken
    /\ Newest(result).error = Some(Msg("HTTP request failed: connection refused", <<>>))
    /\ HoldsFactsOf(context, HttpResponse(200, BodyToken))

\* A StepResult that is a success with a response and no error, or a failure
\* with an error, no response and no extracted variables.
WellFormed(step_result) ==
    IF step_result.success
    THEN /\ IsSome(step_result.response)
         /\ step_result.error = None
    ELSE /\ step_result.response = None
         /\ IsSome(step_result.error)
         /\ DOMAIN step_result.extracted_variables = {}

\* The results that are failures with the given error text.
FailedWith(text) ==
    {j \in 1..NumResults :
        ~StepResults[j].success /\ StepResults[j].error = Some(Msg(text, <<>>))}

C30_FailedScriptLeavesContext ==
    /\ [][(pc \in {"step", "post"} /\ NumResults' = NumResults + 1) =>
            /\ Newest(result').error = Some(Msg(ScriptError, <<>>))
            /\ context' = context]_vars
    /\ []((NumResults = 1 /\ RecordedStep(1).name = "Check"
            /\ Newest(result).error = Some(Msg(ScriptError, <<>>))
            /\ pc \in {"step", "maxdur"})
           => /\ context.variables = <<>>
              /\ context.console_output = <<>>
              /\ context.request_data = <<>>
              /\ DOMAIN context.response_data = {KeyStatus, KeyBody})

\* The post-response script of Check set S and wrote to the console before
\* it failed on P, which the pool does not hold: the pool and the console
\* output are empty as before, the response data are those of the response.
C30_Witness ==
    /\ pc = "maxdur"
    /\ NumResults = 1
    /\ RecordedStep(1).name = "Check"
    /\ Newest(result).error = Some(Msg(ScriptError, <<>>))
    /\ HoldsFactsOf(context, HttpResponse(200, BodyToken))
    /\ context.variables = <<>>
    /\ context.console_output = <<>>

====
